---- MODULE Spec2Model ----
(***************************************************************************)
(* Trading state-machine cluster of the volatility strategy server:        *)
(* the buy-signal processor, the order executor and the position manager   *)
(* (server/app/core/trading).  All components run as coroutines of one     *)
(* cooperative asyncio scheduler: a handler runs without interleaving up   *)
(* to its next await, so every action below is one such run-to-suspension  *)
(* segment of a handler.                                                   *)
(*                                                                         *)
(* Python dicts are modelled as sequences of <<key, reference>> pairs in   *)
(* insertion order; the objects themselves live in heaps (sequences of     *)
(* records) and are referred to by their heap index, so that two objects   *)
(* with the same identifier stay two objects.  Identifiers are built by    *)
(* the code from the symbol and the wall clock at second granularity and   *)
(* are modelled as <<symbol, second>>.                                     *)
(***************************************************************************)
EXTENDS Integers, Sequences, FiniteSets, Bags, TLC

VARIABLES
    now,                    \* wall clock, in seconds
    signals,                \* heap of BuySignal objects
    active_signals,         \* SignalProcessor.active_signals
    processed_signals,      \* SignalProcessor.processed_signals
    auto_execution_enabled, \* SignalProcessor.auto_execution_enabled
    autoTasks,              \* _create_buy_signal coroutines suspended before their auto-confirm
    confirmTasks,           \* confirm_signal coroutines suspended inside add_buy_order
    orders,                 \* heap of BuyOrder objects
    pending_orders,         \* OrderExecutor.pending_orders
    completed_orders,       \* OrderExecutor.completed_orders
    is_running,             \* OrderExecutor.is_running
    execPc,                 \* where the execution loop is suspended
    execQueue,              \* rest of orders_to_process of the current scan
    execCur,                \* the order the loop is executing (heap index, 0 = none)
    execWake,               \* second at which the loop's current sleep ends
    positions,              \* heap of Position objects
    active_positions,       \* PositionManager.active_positions (entry table)
    closed_positions,       \* PositionManager.closed_positions
    pm_is_running,          \* PositionManager.is_running
    closeTasks,             \* bag of close_position coroutines suspended at place_sell_order
    session_is_running,     \* AfterHoursSessionManager.is_running
    current_phase,          \* AfterHoursSessionManager.current_phase
    monitoring_targets,     \* AfterHoursSessionManager.monitoring_targets, in insertion order
    session_pc,             \* where the session loop is suspended ("none": no loop)
    session_cur,            \* the target the loop is polling (index, 0 = none)
    session_wake,           \* second at which the loop's current sleep ends
    session_cancelling,     \* cancelled loops whose finally clause has yet to run
    session_started,        \* history: accepted start_session calls
    phase_changes,          \* history: the phases the running session changed into
    session_reports,        \* history: the summaries logged by _handle_session_complete
    tc_is_running,          \* TradingController.is_running
    current_daily_investment, \* TradingController.current_daily_investment
    es_is_running,          \* TimeBasedExitStrategy.is_running
    exit_current_phase,     \* TimeBasedExitStrategy.current_phase
    buyTasks,               \* execute_manual_buy coroutines suspended inside add_buy_order
    em_pc,                  \* where emergency_stop is suspended ("none": not called)
    em_queue,               \* rest of emergency_stop's list of pending order ids
    em_log,                 \* history: what emergency_stop listed, called and got back
    ticks,                  \* number of clock advances so far (bounds the model)
    lastCall                \* history: the last handler call and what it returned

sigVars == <<signals, active_signals, processed_signals, auto_execution_enabled,
             autoTasks, confirmTasks>>
ordVars == <<orders, pending_orders, completed_orders>>
exeVars == <<is_running, execPc, execQueue, execCur, execWake>>
posVars == <<positions, active_positions, closed_positions, pm_is_running, closeTasks>>
sesVars == <<session_is_running, current_phase, monitoring_targets, session_pc,
             session_cur, session_wake, session_cancelling, session_started,
             phase_changes, session_reports>>
ctlVars == <<tc_is_running, current_daily_investment, es_is_running,
             exit_current_phase, buyTasks,
             em_pc, em_queue, em_log>>
vars == <<now, ticks, sigVars, ordVars, exeVars, posVars, sesVars, ctlVars, lastCall>>

(***************************************************************************)
(* Bounds of the model.                                                    *)
(***************************************************************************)
MaxTicks == 1
MaxSignals == 2
MaxOrders == 2
MaxPositions == 2
MaxCloseTasks == 2
\* history counters stop counting here
MaxCounted == 2
MaxSessions == 1

Symbols == {"AAA", "BBB"}

(***************************************************************************)
(* Program constants.                                                      *)
(***************************************************************************)
DefaultInvestmentAmount == 1000000
ConfirmationTimeout == 30
AutoConfirmDelay == 1
MinVolume == 100000
MaxPendingSignals == 10
\* percentages of the price feed and buy thresholds are counted in thousandths
\* of a percent
PercentScale == 1000
DefaultThreshold == 2 * PercentScale
SecondsPerDay == 86400
MaxRetries == 3
RetryDelay == 1
ExecutionInterval == 2
TargetProfitPercent == 3
StopLossPercent == -2
MaxHoldHours == 6
SecondsPerHour == 3600
\* force_liquidation_time "15:20" and the strategy loop's window end 15:30,
\* in minutes of the day
ForceLiquidationMinute == 15 * 60 + 20
MarketCloseMinute == 15 * 60 + 30
\* the clock reads 0 at market open, 09:00
MarketOpenSecond == 9 * SecondsPerHour

(***************************************************************************)
(* Inputs of the handlers.                                                 *)
(***************************************************************************)
\* the price the feed quotes for each symbol
PriceOf == [symbol \in Symbols |-> IF symbol = "AAA" THEN 10000 ELSE 2000000]
ChangePercents == {1 * PercentScale, 3 * PercentScale}
Volumes == {50000, 150000}
\* 0 stands for "no amount given" (None): the code tests the amount's truth
Amounts == {0}
TickSteps == {1, ConfirmationTimeout + 1}
\* quotes of the price feed for a held symbol, in percent above its entry price
QuotePercents == {-2, 1, 3}
PositionQuantities == {10}
\* the symbol bought in the runs driven by the position manager's callers, where
\* the symbol of a position enters nothing but its id
HeldSymbols == {"AAA"}
\* clock advances of the position manager's runs: the maximum hold time, and
\* the time from market open to the forced liquidation
HoldSteps == {MaxHoldHours * SecondsPerHour,
              ForceLiquidationMinute * 60 - MarketOpenSecond}
\* the position manager is followed from market open to the forced liquidation
LastSecond == ForceLiquidationMinute * 60 - MarketOpenSecond

NoId == <<"", 0>>

\* lastCall after a handler whose return value no property reads
Other == [op |-> "other"]

(***************************************************************************)
(* dict: insertion-ordered sequence of <<key, reference>>.                 *)
(***************************************************************************)
Keys(d) == {d[i][1] : i \in DOMAIN d}
Values(d) == [i \in DOMAIN d |-> d[i][2]]
Has(d, k) == k \in Keys(d)
Get(d, k) == d[CHOOSE i \in DOMAIN d : d[i][1] = k][2]
Put(d, k, v) ==
    IF Has(d, k) THEN [i \in DOMAIN d |-> IF d[i][1] = k THEN <<k, v>> ELSE d[i]]
    ELSE Append(d, <<k, v>>)
Pop(d, k) == SelectSeq(d, LAMBDA e : e[1] # k)
Refs(d) == {d[i][2] : i \in DOMAIN d}

RemoveAt(s, i) == [j \in 1..(Len(s) - 1) |-> IF j < i THEN s[j] ELSE s[j + 1]]

(***************************************************************************)
(* The wall clock.  datetime.now() is read at second granularity wherever  *)
(* the code builds an identifier; asyncio.sleep(d) ends no earlier than d  *)
(* seconds after it began.                                                 *)
(***************************************************************************)
Tick(d) ==
    /\ ticks < MaxTicks
    /\ now' = now + d
    /\ ticks' = ticks + 1
    /\ lastCall' = Other
    /\ UNCHANGED <<sigVars, ordVars, exeVars, posVars, sesVars, ctlVars>>

(***************************************************************************)
(* Order Executor: add_buy_order.                                          *)
(***************************************************************************)
\* the quotient rounded up instead of truncated
QuantityRoundedUp(investment_amount, target_price) ==
    (investment_amount + target_price - 1) \div target_price

\* int(investment_amount / target_price): Python's int() truncates toward zero
Quantity(investment_amount, target_price) ==
    IF investment_amount >= 0 THEN investment_amount \div target_price
    ELSE -((-investment_amount) \div target_price)

OrderId(symbol) == <<symbol, now>>

BuyOrder(order_id, symbol, target_price, quantity, auto_execute) ==
    [order_id |-> order_id, symbol |-> symbol, target_price |-> target_price,
     quantity |-> quantity, auto_execute |-> auto_execute,
     status |-> "PENDING", retry_count |-> 0,
     \* history: broker calls made for this order, and how many of them failed;
     \* cancel_order returned true for this object; the status carried by the
     \* last order update sent for this object
     attempts |-> 0, failures |-> 0, cancelled |-> FALSE, notified |-> "NONE"]

\* _send_order_update: the update carries the status the order has at the call
SendOrderUpdate(order) == [order EXCEPT !.notified = order.status]

\* add_buy_order raises ValueError, and touches nothing, unless this holds
AddBuyOrderAccepts(target_price, investment_amount) ==
    Quantity(investment_amount, target_price) > 0

\* the heap and the pending dict after an accepted add_buy_order
OrdersAfterAdd(symbol, target_price, investment_amount, auto_execute) ==
    Append(orders,
           SendOrderUpdate(BuyOrder(OrderId(symbol), symbol, target_price,
                                    Quantity(investment_amount, target_price),
                                    auto_execute)))
PendingAfterAdd(symbol) == Put(pending_orders, OrderId(symbol), Len(orders) + 1)

(***************************************************************************)
(* Buy-Signal Processor.                                                   *)
(***************************************************************************)
SignalId(symbol) == <<symbol, now>>

\* f"{change_percent:.2f}": the value in hundredths of a percent, rounded
FormatTwoDecimals(change_percent) ==
    (change_percent * 100 + (PercentScale \div 2)) \div PercentScale

BuySignal(symbol, current_price, change_percent) ==
    [signal_id |-> SignalId(symbol), symbol |-> symbol,
     current_price |-> current_price, created_at |-> now,
     investment_amount |-> DefaultInvestmentAmount,
     auto_confirm |-> auto_execution_enabled,
     confirmation_timeout |-> ConfirmationTimeout,
     is_confirmed |-> FALSE, is_processed |-> FALSE, order_id |-> NoId,
     trigger_reason |-> <<"MOMENTUM", FormatTwoDecimals(change_percent)>>,
     \* history: confirm_signal returned true for this object; buy orders added for it;
     \* the handler that took it out of active_signals
     confirm_returned |-> FALSE, orders_placed |-> 0, left_by |-> "NONE"]

ActiveSymbols == {signals[r].symbol : r \in Refs(active_signals)}

\* _should_generate_signal without its duplicate-symbol loop
ShouldGenerateSignalNoDuplicateCheck(symbol, change_percent, volume, threshold_percent) ==
    /\ ~(change_percent < threshold_percent)
    /\ ~(Len(active_signals) >= MaxPendingSignals)
    /\ ~(volume < MinVolume)

\* _should_generate_signal without its volume check
ShouldGenerateSignalAnyVolume(symbol, change_percent, volume, threshold_percent) ==
    /\ ~(change_percent < threshold_percent)
    /\ \A r \in Refs(active_signals) : signals[r].symbol # symbol
    /\ ~(Len(active_signals) >= MaxPendingSignals)

ShouldGenerateSignal(symbol, change_percent, volume, threshold_percent) ==
    /\ ~(change_percent < threshold_percent)
    /\ \A r \in Refs(active_signals) : signals[r].symbol # symbol
    /\ ~(Len(active_signals) >= MaxPendingSignals)
    /\ ~(volume < MinVolume)

\* _should_generate_signal and _create_buy_signal up to the first await
CreateBuySignal(symbol, current_price, change_percent, volume, threshold_percent) ==
    LET sig == BuySignal(symbol, current_price, change_percent)
    IN  IF ShouldGenerateSignal(symbol, change_percent, volume, threshold_percent)
        THEN /\ signals' = Append(signals, sig)
             /\ active_signals' = Put(active_signals, sig.signal_id, Len(signals) + 1)
             /\ autoTasks' = IF sig.auto_confirm
                             THEN Append(autoTasks, [signal_id |-> sig.signal_id,
                                                     wake |-> now + AutoConfirmDelay])
                             ELSE autoTasks
        ELSE UNCHANGED <<signals, active_signals, autoTasks>>

\* process_price_update up to the first await of _create_buy_signal
ProcessPriceUpdate(symbol, current_price, change_percent, volume) ==
    LET gen == ShouldGenerateSignal(symbol, change_percent, volume, DefaultThreshold)
    IN  /\ gen => Cardinality({r \in DOMAIN signals : signals[r].symbol \in Symbols})
                      < MaxSignals
        /\ CreateBuySignal(symbol, current_price, change_percent, volume, DefaultThreshold)
        /\ UNCHANGED <<now, ticks, sesVars, ctlVars, posVars, processed_signals,
                       auto_execution_enabled, confirmTasks, ordVars, exeVars>>
        /\ lastCall' = IF /\ \/ symbol \in ActiveSymbols
                              \/ Len(active_signals) >= MaxPendingSignals
                           /\ ~(change_percent < DefaultThreshold)
                       THEN [op |-> "process_price_update",
                             had_active |-> symbol \in ActiveSymbols,
                             created |-> gen,
                             sets_unchanged |-> /\ active_signals' = active_signals
                                                /\ processed_signals' = processed_signals]
                       ELSE Other

\* confirm_signal's second guard, and the guard left out
AlreadyConfirmedIgnored(sig) == FALSE

AlreadyConfirmed(sig) == sig.is_confirmed

\* confirm_signal up to its return or to the await inside add_buy_order
ConfirmBody(signal_id, investment_amount) ==
    IF ~Has(active_signals, signal_id)
    THEN /\ lastCall' = [op |-> "confirm_signal", found |-> FALSE, was_confirmed |-> FALSE,
                         returned |-> "false", order_added |-> FALSE]
         /\ UNCHANGED <<signals, confirmTasks, ordVars>>
    ELSE LET r == Get(active_signals, signal_id)
             sig == signals[r]
             amount == IF investment_amount # 0 THEN investment_amount
                       ELSE sig.investment_amount
         IN  IF AlreadyConfirmed(sig)
             THEN /\ lastCall' = [op |-> "confirm_signal", found |-> TRUE,
                                  was_confirmed |-> TRUE, returned |-> "false",
                                  order_added |-> FALSE]
                  /\ UNCHANGED <<signals, confirmTasks, ordVars>>
             ELSE IF AddBuyOrderAccepts(sig.current_price, amount)
             THEN /\ signals' = [signals EXCEPT ![r].investment_amount = amount,
                                                ![r].is_confirmed = TRUE,
                                                ![r].orders_placed = @ + 1]
                  /\ orders' = OrdersAfterAdd(sig.symbol, sig.current_price, amount, TRUE)
                  /\ pending_orders' = PendingAfterAdd(sig.symbol)
                  /\ confirmTasks' = Append(confirmTasks,
                                            [signal |-> r, order_id |-> OrderId(sig.symbol)])
                  /\ lastCall' = [op |-> "confirm_signal", found |-> TRUE,
                                  was_confirmed |-> sig.is_confirmed,
                                  returned |-> "suspended",
                                  order_added |-> Len(orders') > Len(orders)]
                  /\ UNCHANGED completed_orders
             ELSE \* add_buy_order raised: _execute_buy_order's except branch
                  /\ signals' = [signals EXCEPT ![r].investment_amount = amount,
                                                ![r].is_confirmed = TRUE,
                                                ![r].trigger_reason = <<"ORDER_FAILED">>,
                                                ![r].confirm_returned = TRUE]
                  /\ lastCall' = [op |-> "confirm_signal", found |-> TRUE,
                                  was_confirmed |-> FALSE, returned |-> "true",
                                  order_added |-> FALSE]
                  /\ UNCHANGED <<confirmTasks, ordVars>>

\* every identifier a caller could hold, and one no signal ever had
KnownSignalIds == {signals[r].signal_id : r \in DOMAIN signals} \cup {NoId}

ConfirmSignal(signal_id, investment_amount) ==
    /\ ConfirmBody(signal_id, investment_amount)
    /\ UNCHANGED <<now, ticks, sesVars, ctlVars, posVars, active_signals, processed_signals, auto_execution_enabled,
                   autoTasks, exeVars>>

\* the delayed confirm of _create_buy_signal: sleep(1), then confirm_signal(signal_id)
AutoConfirm(i) ==
    /\ i \in DOMAIN autoTasks
    /\ now >= autoTasks[i].wake
    /\ ConfirmBody(autoTasks[i].signal_id, 0)
    /\ autoTasks' = RemoveAt(autoTasks, i)
    /\ UNCHANGED <<now, ticks, sesVars, ctlVars, posVars, active_signals, processed_signals, auto_execution_enabled,
                   exeVars>>

\* _execute_buy_order after add_buy_order returned, then confirm_signal's return
ConfirmResume(i) ==
    /\ i \in DOMAIN confirmTasks
    /\ LET r == confirmTasks[i].signal
           signal_id == signals[r].signal_id
       IN  IF Has(active_signals, signal_id)
           THEN /\ signals' = [signals EXCEPT ![r].order_id = confirmTasks[i].order_id,
                                              ![r].is_processed = TRUE,
                                              ![r].confirm_returned = TRUE,
                                              ![Get(active_signals, signal_id)].left_by =
                                                  "CONFIRMED"]
                /\ processed_signals' = Put(processed_signals, signal_id,
                                            Get(active_signals, signal_id))
                /\ active_signals' = Pop(active_signals, signal_id)
           ELSE \* pop raised KeyError: the except branch
                /\ signals' = [signals EXCEPT ![r].order_id = confirmTasks[i].order_id,
                                              ![r].is_processed = TRUE,
                                              ![r].trigger_reason = <<"ORDER_FAILED">>,
                                              ![r].confirm_returned = TRUE]
                /\ UNCHANGED <<active_signals, processed_signals>>
    /\ confirmTasks' = RemoveAt(confirmTasks, i)
    /\ lastCall' = Other
    /\ UNCHANGED <<now, ticks, sesVars, ctlVars, posVars, auto_execution_enabled, autoTasks, ordVars, exeVars>>

RejectSignal(signal_id) ==
    /\ IF ~Has(active_signals, signal_id)
       THEN UNCHANGED <<signals, active_signals, processed_signals>>
       ELSE LET r == Get(active_signals, signal_id)
            IN  /\ signals' = [signals EXCEPT ![r].trigger_reason = <<"REJECTED">>,
                                               ![r].left_by = "REJECTED"]
                /\ processed_signals' = Put(processed_signals, signal_id, r)
                /\ active_signals' = Pop(active_signals, signal_id)
    /\ lastCall' = Other
    /\ UNCHANGED <<now, ticks, sesVars, ctlVars, posVars, auto_execution_enabled, autoTasks, confirmTasks,
                   ordVars, exeVars>>

\* (current_time - created_at).seconds: the seconds part of the difference
Expired(sig) == ((now - sig.created_at) % SecondsPerDay) > sig.confirmation_timeout

RECURSIVE PutAll(_, _)
PutAll(d, entries) ==
    IF entries = <<>> THEN d
    ELSE PutAll(Put(d, entries[1][1], entries[1][2]), Tail(entries))

CleanupExpiredSignals ==
    LET expired == SelectSeq(active_signals, LAMBDA e : Expired(signals[e[2]]))
    IN  /\ active_signals' = SelectSeq(active_signals, LAMBDA e : ~Expired(signals[e[2]]))
        /\ processed_signals' = PutAll(processed_signals, expired)
        /\ signals' = [r \in DOMAIN signals |->
                          IF r \in Refs(expired)
                          THEN [signals[r] EXCEPT !.left_by = "EXPIRED"]
                          ELSE signals[r]]
        /\ lastCall' = Other
        /\ UNCHANGED <<now, ticks, sesVars, ctlVars, posVars, auto_execution_enabled, autoTasks,
                       confirmTasks, ordVars, exeVars>>

\* the initial state of everything but the clock and the signal processor's signals
InitComponents ==
    /\ ticks = 0
    /\ processed_signals = <<>>
    /\ autoTasks = <<>>
    /\ confirmTasks = <<>>
    /\ orders = <<>>
    /\ pending_orders = <<>>
    /\ completed_orders = <<>>
    /\ is_running = FALSE
    /\ execPc = "none"
    /\ execQueue = <<>>
    /\ execCur = 0
    /\ execWake = 0
    /\ positions = <<>>
    /\ active_positions = <<>>
    /\ closed_positions = <<>>
    /\ pm_is_running = FALSE
    /\ closeTasks = EmptyBag
    /\ session_is_running = FALSE
    /\ current_phase = "WAITING"
    /\ monitoring_targets = <<>>
    /\ session_pc = "none"
    /\ session_cur = 0
    /\ session_wake = 0
    /\ session_cancelling = 0
    /\ session_started = 0
    /\ phase_changes = <<>>
    /\ session_reports = <<>>
    /\ tc_is_running = FALSE
    /\ current_daily_investment = 0
    /\ es_is_running = FALSE
    /\ exit_current_phase = "EARLY_MORNING"
    /\ buyTasks = <<>>
    /\ em_pc = "none"
    /\ em_queue = <<>>
    /\ em_log = <<>>

InitRest ==
    /\ InitComponents
    /\ lastCall = Other

Init ==
    /\ now = 0
    /\ signals = <<>>
    /\ active_signals = <<>>
    /\ auto_execution_enabled = TRUE
    /\ InitRest

NextSig ==
    \/ \E d \in TickSteps : Tick(d)
    \/ \E symbol \in Symbols, chg \in ChangePercents, vol \in Volumes :
          ProcessPriceUpdate(symbol, PriceOf[symbol], chg, vol)
    \/ \E id \in KnownSignalIds, amount \in Amounts : ConfirmSignal(id, amount)
    \/ \E i \in DOMAIN autoTasks : AutoConfirm(i)
    \/ \E i \in DOMAIN confirmTasks : ConfirmResume(i)
    \/ \E id \in KnownSignalIds : RejectSignal(id)
    \/ CleanupExpiredSignals

SpecSig == Init /\ [][NextSig]_vars

(***************************************************************************)
(* The signal processor with its queue of active signals nearly full:      *)
(* automatic execution was switched off through PUT /executor/settings,    *)
(* and one signal for each of the QueuedSymbols was created within the     *)
(* current second and awaits its confirmation.                             *)
(***************************************************************************)
QueuedSymbols == <<"Q01", "Q02", "Q03", "Q04", "Q05", "Q06", "Q07", "Q08", "Q09">>

QueuedSignal(i) ==
    [signal_id |-> <<QueuedSymbols[i], 0>>, symbol |-> QueuedSymbols[i],
     current_price |-> PriceOf["AAA"], created_at |-> 0,
     investment_amount |-> DefaultInvestmentAmount,
     auto_confirm |-> FALSE,
     confirmation_timeout |-> ConfirmationTimeout,
     is_confirmed |-> FALSE, is_processed |-> FALSE, order_id |-> NoId,
     trigger_reason |-> <<"MOMENTUM", FormatTwoDecimals(DefaultThreshold)>>,
     confirm_returned |-> FALSE, orders_placed |-> 0, left_by |-> "NONE"]

InitGen ==
    /\ now = 0
    /\ signals = [i \in DOMAIN QueuedSymbols |-> QueuedSignal(i)]
    /\ active_signals = [i \in DOMAIN QueuedSymbols |-> <<QueuedSignal(i).signal_id, i>>]
    /\ auto_execution_enabled = FALSE
    /\ InitRest

\* the symbols whose signals the operator rejects in these runs
RejectedSymbols == {"AAA", QueuedSymbols[1]}
RejectedIds == {id \in KnownSignalIds : id[1] \in RejectedSymbols}

NextGen ==
    \/ \E d \in TickSteps : Tick(d)
    \/ \E symbol \in Symbols, chg \in ChangePercents, vol \in Volumes :
          ProcessPriceUpdate(symbol, PriceOf[symbol], chg, vol)
    \/ \E id \in RejectedIds : RejectSignal(id)
    \/ CleanupExpiredSignals

SpecGen == InitGen /\ [][NextGen]_vars

(***************************************************************************)
(* Order Executor: the API handlers and the execution loop.                *)
(***************************************************************************)
\* POST /orders/buy: add_buy_order called directly
AddBuyOrder(symbol, investment_amount, auto_execute) ==
    /\ IF AddBuyOrderAccepts(PriceOf[symbol], investment_amount)
       THEN /\ Len(orders) < MaxOrders
            /\ orders' = OrdersAfterAdd(symbol, PriceOf[symbol], investment_amount,
                                        auto_execute)
            /\ pending_orders' = PendingAfterAdd(symbol)
            /\ lastCall' = [op |-> "add_buy_order", raised |-> FALSE]
       ELSE /\ lastCall' = [op |-> "add_buy_order", raised |-> TRUE]
            /\ UNCHANGED <<orders, pending_orders>>
    /\ UNCHANGED <<now, ticks, sesVars, ctlVars, posVars, sigVars, completed_orders, exeVars>>

KnownOrderIds == {orders[r].order_id : r \in DOMAIN orders} \cup {NoId}

\* cancel_order's second guard, and the guard left out
IsExecutingIgnored(order) == FALSE

IsExecuting(order) == order.status = "EXECUTING"

CancelOrder(order_id) ==
    /\ IF ~Has(pending_orders, order_id)
       THEN /\ UNCHANGED ordVars
            /\ lastCall' = [op |-> "cancel_order", returned |-> FALSE]
       ELSE LET r == Get(pending_orders, order_id)
            IN  IF IsExecuting(orders[r])
                THEN /\ UNCHANGED ordVars
                     /\ lastCall' = [op |-> "cancel_order", returned |-> FALSE]
                ELSE /\ orders' = [orders EXCEPT ![r].status = "CANCELLED",
                                                 ![r].cancelled = TRUE,
                                                 ![r].notified = "CANCELLED"]
                     /\ completed_orders' = Put(completed_orders, order_id, r)
                     /\ pending_orders' = Pop(pending_orders, order_id)
                     /\ lastCall' = [op |-> "cancel_order", returned |-> TRUE]
    /\ UNCHANGED <<now, ticks, sesVars, ctlVars, posVars, sigVars, exeVars>>

\* start_executor: the loop task begins with a scan
StartExecutor ==
    /\ ~is_running
    /\ is_running' = TRUE
    /\ execPc' = "sleep"
    /\ execWake' = now
    /\ execQueue' = <<>>
    /\ execCur' = 0
    /\ lastCall' = Other
    /\ UNCHANGED <<now, ticks, sesVars, ctlVars, posVars, sigVars, ordVars>>

\* stop_executor: the task is cancelled at the await it is suspended in
StopExecutor ==
    /\ is_running
    /\ is_running' = FALSE
    /\ execPc' = "none"
    /\ execQueue' = <<>>
    /\ execCur' = 0
    /\ lastCall' = Other
    /\ UNCHANGED <<now, ticks, sesVars, ctlVars, posVars, sigVars, ordVars, execWake>>

\* _process_pending_orders: the orders of the scan the loop passes over
Skipped(r) == orders[r].status # "PENDING" \/ ~orders[r].auto_execute

RECURSIVE DropSkipped(_)
DropSkipped(queue) ==
    IF queue = <<>> THEN <<>>
    ELSE IF Skipped(queue[1]) THEN DropSkipped(Tail(queue))
    ELSE queue

\* the for loop of _process_pending_orders from `queue` on, up to its next await:
\* the first order it does not skip goes to EXECUTING; with none left the
\* loop sleeps execution_interval
ProcessFrom(queue, heap) ==
    LET rest == DropSkipped(queue)
    IN  IF rest = <<>>
        THEN /\ orders' = heap
             /\ execPc' = "sleep"
             /\ execWake' = now + ExecutionInterval
             /\ execQueue' = <<>>
             /\ execCur' = 0
        ELSE /\ orders' = [heap EXCEPT ![rest[1]].status = "EXECUTING",
                                       ![rest[1]].notified = "EXECUTING"]
             /\ execPc' = "broker"
             /\ execWake' = now
             /\ execQueue' = Tail(rest)
             /\ execCur' = rest[1]

\* _execution_loop: one pass of the while loop, from the end of its sleep
ExecScan ==
    /\ execPc = "sleep"
    /\ now >= execWake
    /\ ProcessFrom(Values(pending_orders), orders)
    /\ lastCall' = Other
    /\ UNCHANGED <<now, ticks, sesVars, ctlVars, posVars, sigVars, pending_orders, completed_orders, is_running>>

\* _handle_order_error's choice: TRUE when the order is to be retried
RetryAllowed(retry_count) == retry_count < MaxRetries

\* how many times _handle_order_error runs when each run raises KeyError:
\* line 292 (in the try), line 295 (in the except), line 256 (in the scan)
ErrorCalls(outcome) == IF outcome = "rejected" THEN 3 ELSE 2

\* _execute_order from the broker's answer on, with _handle_order_error
ExecBrokerResponse(outcome) ==
    LET r == execCur
        o == orders[r]
        id == o.order_id
        called == [orders EXCEPT ![r].attempts = @ + 1,
                                 ![r].failures = IF outcome = "ok" THEN @ ELSE @ + 1]
        moved == outcome = "ok" /\ Has(pending_orders, id)
        retry == RetryAllowed(o.retry_count + 1)
    IN  /\ execPc = "broker"
        /\ IF moved
           THEN \* COMPLETED, and whatever pending_orders holds under the id moves
                /\ orders' = [called EXCEPT ![r].status = "COMPLETED",
                                            ![r].notified = "COMPLETED"]
                /\ completed_orders' = Put(completed_orders, id, Get(pending_orders, id))
                /\ pending_orders' = Pop(pending_orders, id)
                /\ execPc' = "after"
                /\ execWake' = now
                /\ UNCHANGED <<is_running, execQueue, execCur>>
           ELSE IF retry
           THEN \* back to PENDING, then sleep(retry_delay * retry_count)
                /\ orders' = [called EXCEPT ![r].status = "PENDING",
                                            ![r].retry_count = @ + 1]
                /\ execPc' = "after"
                /\ execWake' = now + RetryDelay * (o.retry_count + 1)
                /\ UNCHANGED <<pending_orders, completed_orders, is_running,
                               execQueue, execCur>>
           ELSE IF Has(pending_orders, id)
           THEN \* FAILED, and whatever pending_orders holds under the id moves
                /\ orders' = [called EXCEPT ![r].status = "FAILED",
                                            ![r].retry_count = @ + 1,
                                            ![r].notified = "FAILED"]
                /\ completed_orders' = Put(completed_orders, id, Get(pending_orders, id))
                /\ pending_orders' = Pop(pending_orders, id)
                /\ execPc' = "after"
                /\ execWake' = now
                /\ UNCHANGED <<is_running, execQueue, execCur>>
           ELSE \* FAILED and pop raises KeyError in every handler: the loop ends
                /\ orders' = [called EXCEPT ![r].status = "FAILED",
                                            ![r].retry_count = @ + ErrorCalls(outcome)]
                /\ is_running' = FALSE
                /\ execPc' = "none"
                /\ execQueue' = <<>>
                /\ execCur' = 0
                /\ UNCHANGED <<pending_orders, completed_orders, execWake>>
        /\ lastCall' = Other
        /\ UNCHANGED <<now, ticks, sesVars, ctlVars, posVars, sigVars>>

\* _execute_order's last _send_order_update, after the back-off sleep if any;
\* then the scan goes on
ExecAfter ==
    /\ execPc = "after"
    /\ now >= execWake
    /\ ProcessFrom(execQueue, [orders EXCEPT ![execCur] = SendOrderUpdate(@)])
    /\ lastCall' = Other
    /\ UNCHANGED <<now, ticks, sesVars, ctlVars, posVars, sigVars, pending_orders, completed_orders, is_running>>

BrokerOutcomes == {"ok", "rejected", "exception"}

NextOrd ==
    \/ \E d \in TickSteps : Tick(d)
    \/ \E symbol \in Symbols, auto \in BOOLEAN :
          AddBuyOrder(symbol, DefaultInvestmentAmount, auto)
    \/ \E id \in KnownOrderIds : CancelOrder(id)
    \/ StartExecutor
    \/ StopExecutor
    \/ ExecScan
    \/ \E outcome \in BrokerOutcomes : ExecBrokerResponse(outcome)
    \/ ExecAfter

SpecOrd == Init /\ [][NextOrd]_vars

(***************************************************************************)
(* Cancellation against the running execution loop: orders are added for   *)
(* automatic execution, the loop is started once and not stopped, and the  *)
(* broker answers every order it is sent.                                  *)
(***************************************************************************)
AnsweredOutcomes == {"ok", "rejected"}

NextCan ==
    \/ Tick(ExecutionInterval)
    \/ \E symbol \in Symbols : AddBuyOrder(symbol, DefaultInvestmentAmount, TRUE)
    \/ \E id \in KnownOrderIds : CancelOrder(id)
    \/ StartExecutor
    \/ ExecScan
    \/ \E outcome \in AnsweredOutcomes : ExecBrokerResponse(outcome)
    \/ ExecAfter

SpecCan == Init /\ [][NextCan]_vars

(***************************************************************************)
(* The two ways a buy order is added: POST /orders/buy, and the            *)
(* confirmation of a signal with or without an amount of its own.          *)
(***************************************************************************)
\* amounts a request carries (the request models require them positive): one
\* below the price of every symbol, one that is no multiple of a price
OrderAmounts == {5000, 25000}
ConfirmAmounts == {0} \cup OrderAmounts

NextQty ==
    \/ Tick(AutoConfirmDelay)
    \/ \E symbol \in HeldSymbols :
          ProcessPriceUpdate(symbol, PriceOf[symbol], DefaultThreshold, MinVolume)
    \/ \E id \in KnownSignalIds, amount \in ConfirmAmounts : ConfirmSignal(id, amount)
    \/ \E i \in DOMAIN autoTasks : AutoConfirm(i)
    \/ \E i \in DOMAIN confirmTasks : ConfirmResume(i)
    \/ \E symbol \in HeldSymbols, amount \in OrderAmounts :
          AddBuyOrder(symbol, amount, TRUE)

SpecQty == Init /\ [][NextQty]_vars

(***************************************************************************)
(* Position Manager.                                                       *)
(*                                                                         *)
(* active_positions is iterated by update_position_price across awaits, so *)
(* it is modelled as the dict's entry table: entries in insertion order, a *)
(* deleted entry leaving a hole <<key, 0>>, as in CPython while the table  *)
(* is not resized.  The tracking data of a Position that no handler reads  *)
(* (highest_price, lowest_price, price_updates) is left out.               *)
(***************************************************************************)
Live(t) == SelectSeq(t, LAMBDA e : e[2] # 0)
KeyList(d) == [i \in DOMAIN d |-> d[i][1]]
TablePut(t, k, v) ==
    IF Has(Live(t), k)
    THEN [i \in DOMAIN t |-> IF t[i][1] = k /\ t[i][2] # 0 THEN <<k, v>> ELSE t[i]]
    ELSE Append(t, <<k, v>>)
TablePop(t, k) ==
    [i \in DOMAIN t |-> IF t[i][1] = k /\ t[i][2] # 0 THEN <<k, 0>> ELSE t[i]]

\* the clock of a trading day
HoldTick(d) == now + d <= LastSecond /\ Tick(d)

PositionId(symbol) == <<symbol, now>>

\* percentages are kept in hundredths of a percent; exit_price 0, exit_time -1
\* and exit_reason "NONE" stand for None
Position(symbol, entry_price, quantity) ==
    [position_id |-> PositionId(symbol), symbol |-> symbol,
     entry_price |-> entry_price, quantity |-> quantity, entry_time |-> now,
     target_profit_percent |-> TargetProfitPercent * 100,
     stop_loss_percent |-> StopLossPercent * 100,
     max_hold_hours |-> MaxHoldHours,
     status |-> "ACTIVE", current_price |-> entry_price,
     current_pnl |-> 0, current_pnl_percent |-> 0,
     exit_price |-> 0, exit_time |-> -1, exit_reason |-> "NONE",
     exit_order_id |-> "NONE",
     \* history: sell orders the broker accepted for this position
     sold |-> 0]

\* update_price storing the price without recomputing the profit
UpdatePriceOnly(p, new_price) == [p EXCEPT !.current_price = new_price]

\* Position.update_price
UpdatePrice(p, new_price) ==
    [p EXCEPT !.current_price = new_price,
              !.current_pnl = (new_price - p.entry_price) * p.quantity,
              !.current_pnl_percent =
                  ((new_price - p.entry_price) * 100 * 100) \div p.entry_price]

HoursHeldAtLeast(p, hours) == (now - p.entry_time) >= hours * SecondsPerHour

\* should_exit with the time test first
ShouldExitTimeFirst(p) ==
    IF HoursHeldAtLeast(p, p.max_hold_hours) THEN <<TRUE, "TIME_BASED">>
    ELSE IF p.current_pnl_percent >= p.target_profit_percent
    THEN <<TRUE, "PROFIT_TARGET">>
    ELSE IF p.current_pnl_percent <= p.stop_loss_percent THEN <<TRUE, "STOP_LOSS">>
    ELSE <<FALSE, "NONE">>

\* Position.should_exit
ShouldExit(p) ==
    IF p.current_pnl_percent >= p.target_profit_percent
    THEN <<TRUE, "PROFIT_TARGET">>
    ELSE IF p.current_pnl_percent <= p.stop_loss_percent THEN <<TRUE, "STOP_LOSS">>
    ELSE IF HoursHeldAtLeast(p, p.max_hold_hours) THEN <<TRUE, "TIME_BASED">>
    ELSE <<FALSE, "NONE">>

AddPosition(symbol, entry_price, quantity) ==
    /\ Len(positions) < MaxPositions
    /\ positions' = Append(positions, Position(symbol, entry_price, quantity))
    /\ active_positions' = TablePut(active_positions, PositionId(symbol),
                                    Len(positions) + 1)
    /\ lastCall' = Other
    /\ UNCHANGED <<now, ticks, sesVars, ctlVars, sigVars, ordVars, exeVars, closed_positions,
                   pm_is_running, closeTasks>>

\* close_position's first guard, and the guard left out
NotInActiveIgnored(act, position_id) == FALSE

NotInActive(act, position_id) == ~Has(Live(act), position_id)

\* a close_position call past its guard, suspended at place_sell_order; kind
\* says what runs when it returns: the caller of a single "call", the rest of
\* a "sweep" over a list of ids, or the iteration of an "update"
CloseTask(heap, act, position_id, exit_reason, exit_price, kind, owner, rest, idx, used) ==
    LET r == Get(Live(act), position_id)
    IN  [position_id |-> position_id, pos |-> r, exit_reason |-> exit_reason,
         exit_price |-> IF exit_price = 0 THEN heap[r].current_price ELSE exit_price,
         kind |-> kind, owner |-> owner, rest |-> rest, idx |-> idx, used |-> used]

RECURSIVE DropInactive(_, _)
DropInactive(queue, act) ==
    IF queue = <<>> THEN <<>>
    ELSE IF ~Has(Live(act), queue[1]) THEN DropInactive(Tail(queue), act)
    ELSE queue

\* for position_id in queue: await close_position(position_id, exit_reason),
\* up to the next broker call: the calls for ids no longer active return false
Sweep(queue, exit_reason, owner, heap, act) ==
    LET rest == DropInactive(queue, act)
    IN  IF rest = <<>> THEN EmptyBag
        ELSE SetToBag({CloseTask(heap, act, rest[1], exit_reason, 0, "sweep", owner,
                                 Tail(rest), 0, 0)})

\* the for loop of update_position_price from entry idx on, up to its first
\* close_position: hit is that entry's index, 0 when the loop ran to its end
RECURSIVE UpdateScan(_, _, _, _, _)
UpdateScan(heap, act, symbol, new_price, idx) ==
    IF idx > Len(act) THEN [heap |-> heap, hit |-> 0]
    ELSE LET r == act[idx][2]
         IN  IF r = 0 \/ heap[r].symbol # symbol
             THEN UpdateScan(heap, act, symbol, new_price, idx + 1)
             ELSE LET updated == [heap EXCEPT ![r] = UpdatePrice(heap[r], new_price)]
                  IN  IF ShouldExit(updated[r])[1]
                      THEN [heap |-> updated, hit |-> idx]
                      ELSE UpdateScan(updated, act, symbol, new_price, idx + 1)

UpdateTasks(scan, act, new_price, used) ==
    IF scan.hit = 0 THEN EmptyBag
    ELSE LET r == act[scan.hit][2]
         IN  SetToBag({CloseTask(scan.heap, act, scan.heap[r].position_id,
                                 ShouldExit(scan.heap[r])[2], new_price, "update",
                                 "monitor", <<>>, scan.hit, used)})

MonitorBusy == \E t \in BagToSet(closeTasks) : t.owner = "monitor"

KnownPositionIds == {positions[r].position_id : r \in DOMAIN positions} \cup {NoId}

\* DELETE /positions/{position_id} and execute_manual_sell: close_position up to its
\* return or to the broker call
ClosePosition(position_id) ==
    /\ IF NotInActive(active_positions, position_id)
       THEN /\ closeTasks' = closeTasks
            /\ lastCall' = [op |-> "close_position",
                            in_active |-> position_id \in Keys(Live(active_positions)),
                            was_closed |-> position_id \in Keys(closed_positions),
                            returned |-> "false", raised |-> FALSE,
                            sell_sent |-> BagCardinality(closeTasks') > BagCardinality(closeTasks),
                            maps_unchanged |-> TRUE]
       ELSE IF ~Has(Live(active_positions), position_id)
       THEN \* self.active_positions[position_id] raises KeyError
            /\ closeTasks' = closeTasks
            /\ lastCall' = [op |-> "close_position",
                            in_active |-> position_id \in Keys(Live(active_positions)),
                            was_closed |-> position_id \in Keys(closed_positions),
                            returned |-> "raised", raised |-> TRUE,
                            sell_sent |-> BagCardinality(closeTasks') > BagCardinality(closeTasks),
                            maps_unchanged |-> TRUE]
       ELSE /\ BagCardinality(closeTasks) < MaxCloseTasks
            /\ closeTasks' = closeTasks (+)
                                 SetToBag({CloseTask(positions, active_positions,
                                                     position_id, "MANUAL", 0, "call",
                                                     "api", <<>>, 0, 0)})
            /\ lastCall' = Other
    /\ UNCHANGED <<now, ticks, sesVars, ctlVars, sigVars, ordVars, exeVars, positions, active_positions,
                   closed_positions, pm_is_running>>

\* PositionManager.force_liquidate_all, called by the API and the scheduler
ForceLiquidateAll ==
    /\ BagCardinality(closeTasks) < MaxCloseTasks
    /\ closeTasks' = closeTasks (+) Sweep(KeyList(Live(active_positions)),
                                         "FORCE_LIQUIDATION", "api", positions,
                                         active_positions)
    /\ lastCall' = Other
    /\ UNCHANGED <<now, ticks, sesVars, ctlVars, sigVars, ordVars, exeVars, positions, active_positions,
                   closed_positions, pm_is_running>>

MinuteOfDay == ((MarketOpenSecond + now) % SecondsPerDay) \div 60

\* TimeBasedExitStrategy.force_exit_all_positions, called by the strategy loop
\* between 15:20 and 15:30
ForceExitAllPositions ==
    /\ MinuteOfDay >= ForceLiquidationMinute
    /\ (MarketOpenSecond + now) % SecondsPerDay <= MarketCloseMinute * 60
    /\ BagCardinality(closeTasks) < MaxCloseTasks
    /\ closeTasks' = closeTasks (+) Sweep(KeyList(Live(active_positions)),
                                         "FORCE_LIQUIDATION", "exit_strategy",
                                         positions, active_positions)
    /\ lastCall' = Other
    /\ UNCHANGED <<now, ticks, sesVars, ctlVars, sigVars, ordVars, exeVars, positions, active_positions,
                   closed_positions, pm_is_running>>

StartMonitoring ==
    /\ ~pm_is_running
    /\ pm_is_running' = TRUE
    /\ lastCall' = Other
    /\ UNCHANGED <<now, ticks, sesVars, ctlVars, sigVars, ordVars, exeVars, positions, active_positions,
                   closed_positions, closeTasks>>

\* stop_monitoring: the loop task is cancelled at the await it is suspended in
StopMonitoring ==
    /\ pm_is_running
    /\ pm_is_running' = FALSE
    /\ closeTasks' = [t \in {x \in BagToSet(closeTasks) : x.owner # "monitor"}
                         |-> closeTasks[t]]
    /\ lastCall' = Other
    /\ UNCHANGED <<now, ticks, sesVars, ctlVars, sigVars, ordVars, exeVars, positions, active_positions,
                   closed_positions>>

TimeBasedIds(heap, act) ==
    KeyList(SelectSeq(Live(act), LAMBDA e : ShouldExit(heap[e[2]]) = <<TRUE, "TIME_BASED">>))

\* _monitoring_loop: _check_time_based_exits up to its first broker call
CheckTimeBasedExits ==
    /\ pm_is_running
    /\ ~MonitorBusy
    /\ Live(active_positions) # <<>>
    /\ BagCardinality(closeTasks) < MaxCloseTasks
    /\ closeTasks' = closeTasks (+)
          (IF MinuteOfDay >= ForceLiquidationMinute
           THEN Sweep(KeyList(Live(active_positions)), "FORCE_LIQUIDATION", "monitor",
                      positions, active_positions)
           ELSE Sweep(TimeBasedIds(positions, active_positions), "TIME_BASED", "monitor",
                      positions, active_positions))
    /\ lastCall' = Other
    /\ UNCHANGED <<now, ticks, sesVars, ctlVars, sigVars, ordVars, exeVars, positions, active_positions,
                   closed_positions, pm_is_running>>

\* _update_all_prices: update_position_price(symbol, current_price) up to its
\* first broker call
UpdatePositionPrice(symbol, new_price) ==
    /\ pm_is_running
    /\ ~MonitorBusy
    /\ Live(active_positions) # <<>>
    /\ BagCardinality(closeTasks) < MaxCloseTasks
    /\ LET scan == UpdateScan(positions, active_positions, symbol, new_price, 1)
       IN  /\ positions' = scan.heap
           /\ closeTasks' = closeTasks (+)
                 UpdateTasks(scan, active_positions, new_price,
                             Len(Live(active_positions)))
    /\ lastCall' = Other
    /\ UNCHANGED <<now, ticks, sesVars, ctlVars, sigVars, ordVars, exeVars, active_positions,
                   closed_positions, pm_is_running>>

Min(a, b) == IF a < b THEN a ELSE b

\* _is_order_successful on the broker's response, and a test that passes
\* every response
IsOrderSuccessfulAlways(outcome) == TRUE

IsOrderSuccessful(outcome) == outcome = "ok"

\* close_position from the broker's answer to its return; an exception raised
\* by the call goes to the except branch
CloseResult(t, outcome) ==
    IF outcome # "exception" /\ IsOrderSuccessful(outcome)
    THEN LET heap == [positions EXCEPT ![t.pos] =
                         UpdatePrice([@ EXCEPT !.exit_price = t.exit_price,
                                               !.exit_time = now,
                                               !.exit_reason = t.exit_reason,
                                               !.status = "CLOSED",
                                               !.exit_order_id = "0",
                                               !.sold = Min(@ + 1, MaxCounted)],
                                     t.exit_price)]
         IN  IF Has(Live(active_positions), t.position_id)
             THEN [heap |-> heap,
                   act |-> TablePop(active_positions, t.position_id),
                   closed |-> Put(closed_positions, t.position_id,
                                  Get(Live(active_positions), t.position_id)),
                   returned |-> TRUE,
                   moved |-> Get(Live(active_positions), t.position_id)]
             ELSE \* pop raised KeyError: the except branch
                  [heap |-> heap, act |-> active_positions, closed |-> closed_positions,
                   returned |-> FALSE, moved |-> 0]
    ELSE [heap |-> positions, act |-> active_positions, closed |-> closed_positions,
          returned |-> FALSE, moved |-> 0]

\* what the caller of the returned close_position does next
Continue(t, res) ==
    IF t.kind = "sweep"
    THEN [heap |-> res.heap,
          tasks |-> Sweep(t.rest, t.exit_reason, t.owner, res.heap, res.act)]
    ELSE IF t.kind = "update" /\ Len(Live(res.act)) = t.used
    THEN LET scan == UpdateScan(res.heap, res.act, positions[t.pos].symbol,
                                t.exit_price, t.idx + 1)
         IN  [heap |-> scan.heap,
              tasks |-> UpdateTasks(scan, res.act, t.exit_price, t.used)]
    ELSE \* a single call returns; an iteration over a dict that changed size
         \* raises RuntimeError
         [heap |-> res.heap, tasks |-> EmptyBag]

CloseFinish(t, outcome) ==
    /\ BagIn(t, closeTasks)
    /\ LET res == CloseResult(t, outcome)
           next == Continue(t, res)
       IN  /\ positions' = next.heap
           /\ active_positions' = res.act
           /\ closed_positions' = res.closed
           /\ closeTasks' = (closeTasks (-) SetToBag({t})) (+) next.tasks
           /\ lastCall' = [op |-> "close_finish", failed |-> outcome # "ok",
                           returned |-> res.returned, moved |-> res.moved # 0,
                           unchanged |-> /\ res.heap[t.pos] = positions[t.pos]
                                         /\ res.act = active_positions
                                         /\ res.closed = closed_positions,
                           recorded |-> res.moved # 0 =>
                                           /\ res.heap[res.moved].exit_price # 0
                                           /\ res.heap[res.moved].exit_time # -1
                                           /\ res.heap[res.moved].exit_reason # "NONE"]
           /\ IF t.owner = "emergency"
              THEN \* force_liquidate_all of emergency_stop: the call is logged,
                   \* and after the last one stop_trading_system is next
                   /\ em_log' = Append(em_log, <<"close_position", t.position_id, res.returned>>)
                   /\ em_pc' = IF next.tasks = EmptyBag THEN "stop" ELSE em_pc
              ELSE UNCHANGED <<em_pc, em_log>>
    /\ UNCHANGED <<now, ticks, sesVars, tc_is_running, current_daily_investment,
                   es_is_running, exit_current_phase, buyTasks, em_queue, sigVars, ordVars, exeVars,
                   pm_is_running>>

QuoteOf(symbol, percent) == (PriceOf[symbol] * (100 + percent)) \div 100

\* the position manager driven by its callers: the API, the scheduler and the
\* exit strategy
NextPos ==
    \/ \E d \in HoldSteps : HoldTick(d)
    \/ \E symbol \in HeldSymbols, quantity \in PositionQuantities :
          AddPosition(symbol, PriceOf[symbol], quantity)
    \/ \E id \in KnownPositionIds : ClosePosition(id)
    \/ ForceLiquidateAll
    \/ ForceExitAllPositions
    \/ \E t \in BagToSet(closeTasks), outcome \in BrokerOutcomes : CloseFinish(t, outcome)

SpecPos == Init /\ [][NextPos]_vars

\* the position manager driven by its monitoring loop
NextMon ==
    \/ \E d \in HoldSteps : HoldTick(d)
    \/ \E symbol \in Symbols, quantity \in PositionQuantities :
          AddPosition(symbol, PriceOf[symbol], quantity)
    \/ StartMonitoring
    \/ StopMonitoring
    \/ CheckTimeBasedExits
    \/ \E symbol \in Symbols, percent \in QuotePercents :
          UpdatePositionPrice(symbol, QuoteOf(symbol, percent))
    \/ \E t \in BagToSet(closeTasks), outcome \in BrokerOutcomes : CloseFinish(t, outcome)

SpecMon == Init /\ [][NextMon]_vars

\* what get_current_price answers for a symbol: the quotation of the KIS
\* client, with stck_prpr nested in "output", or a dict with stck_prpr at its
\* top
Quotations(symbol) ==
    [kind : {"kis_quotation", "flat"},
     stck_prpr : {QuoteOf(symbol, percent) : percent \in QuotePercents}]

\* float(price_data.get("stck_prpr", 0))
CurrentPriceRead(price_data) ==
    IF price_data.kind = "flat" THEN price_data.stck_prpr ELSE 0

\* _update_all_prices for one symbol of the active positions, from the answer
\* of get_current_price up to the first broker call of update_position_price
UpdateAllPrices(symbol, price_data) ==
    /\ \E i \in DOMAIN Live(active_positions) :
          positions[Live(active_positions)[i][2]].symbol = symbol
    /\ IF CurrentPriceRead(price_data) > 0
       THEN UpdatePositionPrice(symbol, CurrentPriceRead(price_data))
       ELSE /\ pm_is_running
            /\ ~MonitorBusy
            /\ lastCall' = [op |-> "_update_all_prices", symbol |-> symbol,
                            current_price |-> 0]
            /\ UNCHANGED <<now, ticks, sesVars, ctlVars, sigVars, ordVars, exeVars,
                           posVars>>

\* the monitoring loop with the price query of its tick
NextTick ==
    \/ \E d \in HoldSteps : HoldTick(d)
    \/ \E symbol \in Symbols, quantity \in PositionQuantities :
          AddPosition(symbol, PriceOf[symbol], quantity)
    \/ StartMonitoring
    \/ StopMonitoring
    \/ CheckTimeBasedExits
    \/ \E symbol \in Symbols : \E price_data \in Quotations(symbol) :
          UpdateAllPrices(symbol, price_data)
    \/ \E t \in BagToSet(closeTasks), outcome \in BrokerOutcomes : CloseFinish(t, outcome)

SpecTick == Init /\ [][NextTick]_vars

\* the monitoring loop left running: every pass of _monitoring_loop with
\* active positions runs _check_time_based_exits, and the broker's sell call
\* succeeds in the end for every position it is asked to sell
NextLiq ==
    \/ \E d \in HoldSteps : HoldTick(d)
    \/ \E symbol \in Symbols, quantity \in PositionQuantities :
          AddPosition(symbol, PriceOf[symbol], quantity)
    \/ StartMonitoring
    \/ CheckTimeBasedExits
    \/ \E symbol \in Symbols, percent \in QuotePercents :
          UpdatePositionPrice(symbol, QuoteOf(symbol, percent))
    \/ \E t \in BagToSet(closeTasks), outcome \in BrokerOutcomes : CloseFinish(t, outcome)

SellSucceeds(r) == \E t \in BagToSet(closeTasks) : t.pos = r /\ CloseFinish(t, "ok")

SpecLiq ==
    /\ Init
    /\ [][NextLiq]_vars
    /\ SF_vars(CheckTimeBasedExits)
    /\ \A r \in 1 .. MaxPositions : SF_vars(SellSucceeds(r))

(***************************************************************************)
(* After-hours Session Manager (server/app/core/monitoring).  Its loop     *)
(* wakes every UpdateInterval seconds, derives the phase from the time of  *)
(* day, and polls the price of every target not yet triggered.             *)
(***************************************************************************)
UpdateInterval == 30

\* datetime.time(hour, minute), and datetime.now().time(), in seconds of the day
TimeOfDay(hour, minute) == hour * SecondsPerHour + minute * 60
SecondOfDay == (MarketOpenSecond + now) % SecondsPerDay

PhaseTimes ==
    [PHASE_1 |-> TimeOfDay(16, 0), PHASE_2 |-> TimeOfDay(16, 30),
     PHASE_3 |-> TimeOfDay(17, 0), PHASE_4 |-> TimeOfDay(17, 30),
     COMPLETED |-> TimeOfDay(17, 40)]

\* _determine_current_phase with the first comparison taken inclusive
DetermineCurrentPhaseInclusive(current_time) ==
    IF current_time <= PhaseTimes.PHASE_1 THEN "WAITING"
    ELSE IF current_time < PhaseTimes.PHASE_2 THEN "PHASE_1"
    ELSE IF current_time < PhaseTimes.PHASE_3 THEN "PHASE_2"
    ELSE IF current_time < PhaseTimes.PHASE_4 THEN "PHASE_3"
    ELSE IF current_time < PhaseTimes.COMPLETED THEN "PHASE_4"
    ELSE "COMPLETED"

DetermineCurrentPhase(current_time) ==
    IF current_time < PhaseTimes.PHASE_1 THEN "WAITING"
    ELSE IF current_time < PhaseTimes.PHASE_2 THEN "PHASE_1"
    ELSE IF current_time < PhaseTimes.PHASE_3 THEN "PHASE_2"
    ELSE IF current_time < PhaseTimes.PHASE_4 THEN "PHASE_3"
    ELSE IF current_time < PhaseTimes.COMPLETED THEN "PHASE_4"
    ELSE "COMPLETED"

\* the targets a start request names: symbol, entry_price, volume, buy_threshold
TargetData ==
    <<[symbol |-> "AAA", entry_price |-> PriceOf["AAA"], volume |-> 0,
       buy_threshold |-> DefaultThreshold],
      [symbol |-> "BBB", entry_price |-> PriceOf["BBB"], volume |-> 0,
       buy_threshold |-> DefaultThreshold]>>

MonitoringTarget(target_data) ==
    [symbol |-> target_data.symbol, entry_price |-> target_data.entry_price,
     current_price |-> target_data.entry_price, change_percent |-> 0,
     volume |-> target_data.volume, buy_threshold |-> target_data.buy_threshold,
     is_triggered |-> FALSE,
     \* history: the threshold the target was set up with; adjust_threshold was
     \* called for it; the phase changes of the session before its trigger
     initial_threshold |-> target_data.buy_threshold, adjusted |-> FALSE,
     changes_at_trigger |-> 0]

\* _setup_monitoring_targets
SetupMonitoringTargets(targets) == [i \in DOMAIN targets |-> MonitoringTarget(targets[i])]

\* adjustment_factors of _adjust_thresholds_for_phase, in tenths
AdjustmentFactors == [PHASE_1 |-> 10, PHASE_2 |-> 9, PHASE_3 |-> 8, PHASE_4 |-> 7]

\* original_threshold * factor
Scaled(threshold, tenths) == (threshold * tenths) \div 10

\* _adjust_thresholds_for_phase applied to untriggered and triggered targets alike
AdjustThresholdsForPhaseAll(targets, phase) ==
    [i \in DOMAIN targets |->
        [targets[i] EXCEPT !.buy_threshold = Scaled(@, AdjustmentFactors[phase])]]

AdjustThresholdsForPhase(targets, phase) ==
    [i \in DOMAIN targets |->
        IF ~targets[i].is_triggered
        THEN [targets[i] EXCEPT !.buy_threshold = Scaled(@, AdjustmentFactors[phase])]
        ELSE targets[i]]

\* _handle_phase_change: the targets after it (no callback is registered)
HandlePhaseChange(targets, new_phase) ==
    IF new_phase \in {"PHASE_2", "PHASE_3", "PHASE_4"}
    THEN AdjustThresholdsForPhase(targets, new_phase)
    ELSE targets

\* _monitor_targets without its skip of the targets already triggered
MonitorFromAny(k, targets) ==
    LET left == {i \in DOMAIN targets : i >= k}
    IN  IF left = {}
        THEN /\ session_pc' = "sleep"
             /\ session_cur' = 0
             /\ session_wake' = now + UpdateInterval
        ELSE /\ session_pc' = "poll"
             /\ session_cur' = CHOOSE i \in left : \A j \in left : i <= j
             /\ UNCHANGED session_wake

\* _monitor_targets giving up the pass once a target has been polled
MonitorFromFirstOnly(k, targets) ==
    LET left == {i \in DOMAIN targets : i >= k /\ ~targets[i].is_triggered}
    IN  IF left = {} \/ k > 1
        THEN /\ session_pc' = "sleep"
             /\ session_cur' = 0
             /\ session_wake' = now + UpdateInterval
        ELSE /\ session_pc' = "poll"
             /\ session_cur' = CHOOSE i \in left : \A j \in left : i <= j
             /\ UNCHANGED session_wake

\* the for loop of _monitor_targets from index k on, up to its next await:
\* the first target not yet triggered is polled; with none left the loop
\* sends its status update and sleeps
MonitorFrom(k, targets) ==
    LET left == {i \in DOMAIN targets : i >= k /\ ~targets[i].is_triggered}
    IN  IF left = {}
        THEN /\ session_pc' = "sleep"
             /\ session_cur' = 0
             /\ session_wake' = now + UpdateInterval
        ELSE /\ session_pc' = "poll"
             /\ session_cur' = CHOOSE i \in left : \A j \in left : i <= j
             /\ UNCHANGED session_wake

\* the summary of _handle_session_complete counting every target
TriggeredCountAll(targets) == Cardinality(DOMAIN targets)

TriggeredCount(targets) == Cardinality({i \in DOMAIN targets : targets[i].is_triggered})

\* start_session without its is_running guard
AlreadyRunningIgnored == FALSE

AlreadyRunning == session_is_running

\* POST /monitoring/start: start_session.  The loop task it creates runs its
\* first check before any later request is served.
StartSession(targets) ==
    /\ ~session_is_running => session_pc = "none" /\ session_started < MaxSessions
    /\ IF AlreadyRunning
       THEN /\ lastCall' = [op |-> "start_session", was_running |-> session_is_running,
                            returned |-> FALSE]
            /\ UNCHANGED sesVars
       ELSE /\ monitoring_targets' = SetupMonitoringTargets(targets)
            /\ session_is_running' = TRUE
            /\ session_pc' = "sleep"
            /\ session_cur' = 0
            /\ session_wake' = now
            /\ session_started' = session_started + 1
            /\ phase_changes' = <<>>
            /\ lastCall' = [op |-> "start_session", was_running |-> session_is_running,
                            returned |-> TRUE]
            /\ UNCHANGED <<current_phase, session_cancelling, session_reports>>
    /\ UNCHANGED <<now, ticks, ctlVars, sigVars, ordVars, exeVars, posVars>>

\* POST /monitoring/stop: stop_session.  The cancellation reaches the loop at
\* its current await, inside whatever call it is waiting for; its finally
\* clause runs when the loop task is next scheduled.
StopSession ==
    /\ session_is_running
    /\ session_is_running' = FALSE
    /\ IF session_pc = "none"
       THEN UNCHANGED <<session_pc, session_cur, session_cancelling, autoTasks, confirmTasks>>
       ELSE /\ session_pc' = "none"
            /\ session_cur' = 0
            /\ session_cancelling' = session_cancelling + 1
            /\ autoTasks' = <<>>
            /\ confirmTasks' = <<>>
    /\ lastCall' = Other
    /\ UNCHANGED <<now, ticks, ctlVars, current_phase, monitoring_targets, session_wake,
                   session_started, phase_changes, session_reports, signals,
                   active_signals, processed_signals, auto_execution_enabled,
                   ordVars, exeVars, posVars>>

\* the finally clause of a cancelled _session_loop
SessionCancelled ==
    /\ session_cancelling > 0
    /\ session_cancelling' = session_cancelling - 1
    /\ session_is_running' = FALSE
    /\ lastCall' = Other
    /\ UNCHANGED <<now, ticks, ctlVars, current_phase, monitoring_targets, session_pc, session_cur,
                   session_wake, session_started, phase_changes, session_reports,
                   sigVars, ordVars, exeVars, posVars>>

\* POST /monitoring/adjust-threshold: adjust_threshold
AdjustThreshold(symbol, new_threshold) ==
    /\ monitoring_targets' =
          [i \in DOMAIN monitoring_targets |->
              IF monitoring_targets[i].symbol = symbol
              THEN [monitoring_targets[i] EXCEPT !.buy_threshold = new_threshold,
                                                 !.adjusted = TRUE]
              ELSE monitoring_targets[i]]
    /\ lastCall' = Other
    /\ UNCHANGED <<now, ticks, ctlVars, session_is_running, current_phase, session_pc, session_cur,
                   session_wake, session_cancelling, session_started, phase_changes,
                   session_reports, sigVars, ordVars, exeVars, posVars>>

\* _session_loop: one pass of the while loop from the end of its sleep, up to
\* the first price query of _monitor_targets, to the next sleep, or to its end
SessionLoopTick ==
    LET new_phase == DetermineCurrentPhase(SecondOfDay)
        changed == new_phase # current_phase
        targets == IF changed THEN HandlePhaseChange(monitoring_targets, new_phase)
                   ELSE monitoring_targets
    IN  /\ session_pc = "sleep"
        /\ now >= session_wake
        /\ session_cancelling = 0
        /\ IF ~session_is_running
           THEN \* the while condition fails; the finally clause
                /\ session_pc' = "none"
                /\ lastCall' = Other
                /\ UNCHANGED <<session_is_running, current_phase, monitoring_targets,
                               session_cur, session_wake, phase_changes, session_reports>>
           ELSE /\ current_phase' = new_phase
                /\ phase_changes' = IF changed THEN Append(phase_changes, new_phase)
                                    ELSE phase_changes
                /\ monitoring_targets' = targets
                /\ lastCall' = [op |-> "session_tick", phase |-> new_phase]
                /\ IF new_phase = "COMPLETED"
                   THEN \* _handle_session_complete, break
                        /\ session_reports' =
                              Append(session_reports,
                                     [triggered_count |-> TriggeredCount(targets),
                                      total_targets |-> Len(targets),
                                      session |-> session_started])
                        /\ session_is_running' = FALSE
                        /\ session_pc' = "none"
                        /\ UNCHANGED <<session_cur, session_wake>>
                   ELSE /\ IF new_phase # "WAITING"
                           THEN MonitorFrom(1, targets)
                           ELSE /\ session_pc' = "sleep"
                                /\ session_wake' = now + UpdateInterval
                                /\ UNCHANGED session_cur
                        /\ UNCHANGED <<session_is_running, session_reports>>
        /\ UNCHANGED <<now, ticks, ctlVars, session_cancelling, session_started,
                       sigVars, ordVars, exeVars, posVars>>

\* _session_loop: one pass of the while loop before the session's first phase,
\* in which the send of _send_session_update raises: the loop's except clause
\* logs, its finally clause ends the session
SessionLoopTickSinkFails ==
    LET new_phase == DetermineCurrentPhase(SecondOfDay)
        changed == new_phase # current_phase
    IN  /\ session_pc = "sleep"
        /\ now >= session_wake
        /\ session_cancelling = 0
        /\ session_is_running
        /\ new_phase = "WAITING"
        /\ current_phase' = new_phase
        /\ phase_changes' = IF changed THEN Append(phase_changes, new_phase)
                            ELSE phase_changes
        /\ monitoring_targets' = IF changed
                                 THEN HandlePhaseChange(monitoring_targets, new_phase)
                                 ELSE monitoring_targets
        /\ session_is_running' = FALSE
        /\ session_pc' = "none"
        /\ lastCall' = [op |-> "session_tick", phase |-> new_phase]
        /\ UNCHANGED <<now, ticks, ctlVars, session_cur, session_wake, session_reports,
                       session_cancelling, session_started, sigVars, ordVars, exeVars,
                       posVars>>

\* what the price query of _monitor_targets comes back with: the quotation
\* of the KIS client ("output" nested in the response, no "current_price"
\* key: KeyError), nothing, an exception, or a dict with the keys
\* _monitor_targets reads
NoPriceData ==
    [kind : {"kis_quotation", "empty", "exception"}, change_percent : {0}, volume : {0}]
PolledChanges == {(3 * PercentScale) \div 2, (5 * PercentScale) \div 2}
PriceData == [kind : {"data"}, change_percent : PolledChanges, volume : Volumes]

\* _monitor_targets from the answer to its price query on, with
\* _trigger_buy_signal and process_price_update up to their first await
SessionPollResponse(price_data) ==
    LET k == session_cur
        target == monitoring_targets[k]
        triggers == price_data.kind = "data"
                    /\ price_data.change_percent >= target.buy_threshold
        updated == IF price_data.kind # "data" THEN target
                   ELSE [target EXCEPT !.change_percent = price_data.change_percent,
                                       !.volume = price_data.volume]
    IN  /\ session_pc = "poll"
        /\ IF triggers
           THEN /\ CreateBuySignal(target.symbol, target.current_price,
                                   price_data.change_percent, price_data.volume,
                                   target.buy_threshold)
                /\ monitoring_targets' =
                      [monitoring_targets EXCEPT
                          ![k] = [updated EXCEPT
                                     !.is_triggered = TRUE,
                                     !.changes_at_trigger = Len(phase_changes)]]
                /\ IF Len(autoTasks') > Len(autoTasks)
                   THEN \* the loop waits for _create_buy_signal's delayed confirm
                        /\ session_pc' = "confirm"
                        /\ UNCHANGED <<session_cur, session_wake>>
                   ELSE MonitorFrom(k + 1, monitoring_targets')
           ELSE /\ monitoring_targets' = [monitoring_targets EXCEPT ![k] = updated]
                /\ MonitorFrom(k + 1, monitoring_targets')
                /\ UNCHANGED <<signals, active_signals, autoTasks>>
        /\ lastCall' = Other
        /\ UNCHANGED <<now, ticks, ctlVars, session_is_running, current_phase, session_cancelling,
                       session_started, phase_changes, session_reports,
                       processed_signals, auto_execution_enabled, confirmTasks,
                       ordVars, exeVars, posVars>>

\* _monitor_targets goes on once process_price_update has returned
SessionSignalDone ==
    /\ session_pc = "confirm"
    /\ autoTasks = <<>>
    /\ confirmTasks = <<>>
    /\ MonitorFrom(session_cur + 1, monitoring_targets)
    /\ lastCall' = Other
    /\ UNCHANGED <<now, ticks, ctlVars, session_is_running, current_phase, monitoring_targets,
                   session_cancelling, session_started, phase_changes, session_reports,
                   sigVars, ordVars, exeVars, posVars>>

\* the clock of the session runs: the session is followed from SessionOpens to
\* SessionCloses
SessionOpens == TimeOfDay(15, 50) - MarketOpenSecond
SessionCloses == TimeOfDay(17, 50) - MarketOpenSecond
SessionSteps == {20 * 60}

SessionClock(d) ==
    /\ now + d <= SessionCloses
    /\ now' = now + d
    /\ lastCall' = Other
    /\ UNCHANGED <<ticks, sigVars, ordVars, exeVars, posVars, sesVars, ctlVars>>

\* what the operator adjusts, and to which threshold
AdjustedSymbols == {"BBB"}
ThresholdsSet == {(3 * PercentScale) \div 2}

InitSes ==
    /\ now = SessionOpens
    /\ signals = <<>>
    /\ active_signals = <<>>
    /\ auto_execution_enabled = TRUE
    /\ InitRest

NextSes ==
    \/ \E d \in SessionSteps : SessionClock(d)
    \/ StartSession(TargetData)
    \/ StopSession
    \/ SessionCancelled
    \/ \E symbol \in AdjustedSymbols, threshold \in ThresholdsSet :
          AdjustThreshold(symbol, threshold)
    \/ SessionLoopTick
    \/ \E price_data \in NoPriceData \cup PriceData : SessionPollResponse(price_data)
    \/ SessionSignalDone
    \/ \E i \in DOMAIN autoTasks : AutoConfirm(i)
    \/ \E i \in DOMAIN confirmTasks : ConfirmResume(i)

SpecSes == InitSes /\ [][NextSes]_vars

\* the session with a notification sink that can fail
NextSink ==
    \/ \E d \in SessionSteps : SessionClock(d)
    \/ StartSession(TargetData)
    \/ StopSession
    \/ SessionCancelled
    \/ \E symbol \in AdjustedSymbols, threshold \in ThresholdsSet :
          AdjustThreshold(symbol, threshold)
    \/ SessionLoopTick
    \/ SessionLoopTickSinkFails
    \/ \E price_data \in NoPriceData \cup PriceData : SessionPollResponse(price_data)
    \/ SessionSignalDone
    \/ \E i \in DOMAIN autoTasks : AutoConfirm(i)
    \/ \E i \in DOMAIN confirmTasks : ConfirmResume(i)

SpecSink == InitSes /\ [][NextSink]_vars

(***************************************************************************)
(* The two phase functions, applied at every second of the day: the        *)
(* session loop's _determine_current_phase and the exit strategy's         *)
(* _get_current_phase.                                                     *)
(***************************************************************************)
\* TimeBasedExitStrategy.exit_targets, in insertion order; profit_target and
\* stop_loss in hundredths of a percent, urgency_multiplier in tenths
ExitTargets ==
    <<[phase |-> "EARLY_MORNING", start_time |-> TimeOfDay(9, 0),
       end_time |-> TimeOfDay(11, 0), profit_target |-> 400, stop_loss |-> -150,
       urgency_multiplier |-> 8],
      [phase |-> "MID_MORNING", start_time |-> TimeOfDay(11, 0),
       end_time |-> TimeOfDay(13, 0), profit_target |-> 300, stop_loss |-> -200,
       urgency_multiplier |-> 10],
      [phase |-> "AFTERNOON", start_time |-> TimeOfDay(13, 0),
       end_time |-> TimeOfDay(15, 0), profit_target |-> 200, stop_loss |-> -250,
       urgency_multiplier |-> 15],
      [phase |-> "FORCE_EXIT", start_time |-> TimeOfDay(15, 0),
       end_time |-> TimeOfDay(15, 30), profit_target |-> 50, stop_loss |-> -500,
       urgency_multiplier |-> 30]>>

\* the exit targets whose window holds the time
MatchingTargets(current_time) ==
    SelectSeq(ExitTargets,
              LAMBDA target : target.start_time <= current_time
                              /\ current_time < target.end_time)

GetCurrentPhase(current_time) ==
    IF MatchingTargets(current_time) # <<>> THEN MatchingTargets(current_time)[1].phase
    ELSE IF current_time >= TimeOfDay(15, 0) THEN "FORCE_EXIT"
    ELSE "EARLY_MORNING"

TimesOfDay == 0 .. (SecondsPerDay - 1)

DeterminePhaseCall ==
    /\ lastCall' = [op |-> "_determine_current_phase",
                    returned |-> DetermineCurrentPhase(SecondOfDay)]
    /\ UNCHANGED <<now, ticks, sigVars, ordVars, exeVars, posVars, sesVars, ctlVars>>

GetPhaseCall ==
    /\ lastCall' = [op |-> "_get_current_phase",
                    returned |-> GetCurrentPhase(SecondOfDay)]
    /\ UNCHANGED <<now, ticks, sigVars, ordVars, exeVars, posVars, sesVars, ctlVars>>

InitPhase ==
    /\ now \in {t - MarketOpenSecond : t \in TimesOfDay}
    /\ signals = <<>>
    /\ active_signals = <<>>
    /\ auto_execution_enabled = TRUE
    /\ InitRest

NextPhase ==
    \/ DeterminePhaseCall
    \/ GetPhaseCall

SpecPhase == InitPhase /\ [][NextPhase]_vars

(***************************************************************************)
(* Trading Controller.                                                     *)
(*                                                                         *)
(* _setup_callbacks defines on_order_completed and on_position_closed but  *)
(* registers only on_signal_created, which logs: no component calls back   *)
(* into the controller.                                                    *)
(***************************************************************************)
MaxDailyInvestment == 10000000

\* _can_make_investment
CanMakeInvestment(amount) == current_daily_investment + amount <= MaxDailyInvestment

\* _is_market_hours
IsMarketHours ==
    TimeOfDay(9, 0) <= SecondOfDay /\ SecondOfDay <= TimeOfDay(15, 30)

\* POST /trading/orders/buy: execute_manual_buy up to the await inside
\* add_buy_order (the order update sent to the connected clients)
ExecuteManualBuy(symbol, investment_amount) ==
    /\ IF ~CanMakeInvestment(investment_amount)
       THEN /\ lastCall' = [op |-> "execute_manual_buy", raised |-> TRUE,
                            invested |-> current_daily_investment]
            /\ UNCHANGED <<orders, pending_orders, buyTasks>>
       ELSE IF ~AddBuyOrderAccepts(PriceOf[symbol], investment_amount)
       THEN /\ lastCall' = [op |-> "execute_manual_buy", raised |-> TRUE,
                            invested |-> current_daily_investment]
            /\ UNCHANGED <<orders, pending_orders, buyTasks>>
       ELSE /\ Len(orders) < MaxOrders
            /\ orders' = OrdersAfterAdd(symbol, PriceOf[symbol], investment_amount, TRUE)
            /\ pending_orders' = PendingAfterAdd(symbol)
            /\ buyTasks' = Append(buyTasks, investment_amount)
            /\ lastCall' = Other
    /\ UNCHANGED <<now, ticks, sigVars, completed_orders, exeVars, posVars, sesVars,
                   tc_is_running, current_daily_investment, es_is_running, exit_current_phase,
                   em_pc, em_queue, em_log>>

\* execute_manual_buy from the return of add_buy_order on
ManualBuyResume(i) ==
    /\ current_daily_investment' = current_daily_investment + buyTasks[i]
    /\ buyTasks' = RemoveAt(buyTasks, i)
    /\ lastCall' = [op |-> "execute_manual_buy", raised |-> FALSE,
                    invested |-> current_daily_investment]
    /\ UNCHANGED <<now, ticks, sigVars, ordVars, exeVars, posVars, sesVars,
                   tc_is_running, es_is_running, exit_current_phase, em_pc, em_queue, em_log>>

\* POST /trading/system/start: start_trading_system; each component's start
\* does nothing when the component is running
StartTradingSystem ==
    /\ ~tc_is_running
    /\ tc_is_running' = TRUE
    /\ IF is_running THEN UNCHANGED exeVars
       ELSE /\ is_running' = TRUE
            /\ execPc' = "sleep"
            /\ execWake' = now
            /\ execQueue' = <<>>
            /\ execCur' = 0
    /\ pm_is_running' = TRUE
    /\ es_is_running' = (es_is_running \/ IsMarketHours)
    /\ UNCHANGED exit_current_phase
    /\ lastCall' = Other
    /\ UNCHANGED <<now, ticks, sigVars, ordVars, positions, active_positions,
                   closed_positions, closeTasks, sesVars, current_daily_investment,
                   buyTasks, em_pc, em_queue, em_log>>

\* the scheduler's _start_exit_strategy: start_strategy on the component
StartStrategy ==
    /\ ~es_is_running
    /\ es_is_running' = TRUE
    /\ UNCHANGED exit_current_phase
    /\ lastCall' = Other
    /\ UNCHANGED <<now, ticks, sigVars, ordVars, exeVars, posVars, sesVars,
                   tc_is_running, current_daily_investment, buyTasks, em_pc, em_queue,
                   em_log>>

\* stop_trading_system: nothing unless the controller is running; else
\* stop_executor, stop_monitoring and stop_strategy, each cancelling its loop
\* at the await the loop is suspended in.  The three stops are taken in one
\* step.
StopTradingSystemBody ==
    IF ~tc_is_running
    THEN UNCHANGED <<tc_is_running, exeVars, pm_is_running, es_is_running, exit_current_phase, closeTasks>>
    ELSE /\ tc_is_running' = FALSE
         /\ IF is_running
            THEN /\ is_running' = FALSE
                 /\ execPc' = "none"
                 /\ execQueue' = <<>>
                 /\ execCur' = 0
                 /\ UNCHANGED execWake
            ELSE UNCHANGED exeVars
         /\ pm_is_running' = FALSE
         /\ es_is_running' = FALSE
         /\ UNCHANGED exit_current_phase
         /\ closeTasks' =
               [t \in {x \in BagToSet(closeTasks) :
                          /\ ~(x.owner = "monitor" /\ pm_is_running)
                          /\ ~(x.owner = "exit_strategy" /\ es_is_running)}
                   |-> closeTasks[t]]

\* POST /trading/system/stop
StopTradingSystem ==
    /\ StopTradingSystemBody
    /\ lastCall' = Other
    /\ UNCHANGED <<now, ticks, sigVars, ordVars, positions, active_positions,
                   closed_positions, sesVars, current_daily_investment, buyTasks,
                   em_pc, em_queue, em_log>>

\* emergency_stop from its call of stop_trading_system to its return
EmergencyStopSystem ==
    /\ StopTradingSystemBody
    /\ em_pc' = "returned"
    /\ lastCall' = [op |-> "emergency_stop"]

\* emergency_stop: force_liquidate_all up to its first broker call; with no
\* position to close, on to stop_trading_system
EmergencyLiquidate(log) ==
    LET tasks == Sweep(KeyList(Live(active_positions)), "FORCE_LIQUIDATION", "emergency",
                       positions, active_positions)
        listed == Append(log, <<"force_liquidate_all",
                                {Live(active_positions)[i][1] : i \in DOMAIN Live(active_positions)}>>)
    IN  IF tasks # EmptyBag
        THEN /\ closeTasks' = closeTasks (+) tasks
             /\ em_log' = listed
             /\ em_pc' = "liquidate"
             /\ lastCall' = Other
             /\ UNCHANGED <<tc_is_running, exeVars, pm_is_running, es_is_running, exit_current_phase>>
        ELSE /\ em_log' = Append(listed, <<"stop_trading_system">>)
             /\ EmergencyStopSystem

\* cancel_order returns false, without an await, for these ids
Uncancellable(order_id) ==
    \/ ~Has(pending_orders, order_id)
    \/ IsExecuting(orders[Get(pending_orders, order_id)])

\* the ids of the list emergency_stop passes over up to the next order it
\* cancels, and the rest of the list from that order on
RECURSIVE RefusedPrefix(_)
RefusedPrefix(queue) ==
    IF queue = <<>> \/ ~Uncancellable(queue[1]) THEN <<>>
    ELSE <<queue[1]>> \o RefusedPrefix(Tail(queue))

RefusedEvents(queue) ==
    [i \in DOMAIN RefusedPrefix(queue) |-> <<"cancel_order", queue[i], FALSE>>]

\* (variant: a refused cancel_order ends emergency_stop like an exception)
EmergencyCancelFromRaising(queue, log) ==
    IF queue # <<>> /\ Uncancellable(queue[1])
    THEN /\ em_log' = Append(log, <<"cancel_order", queue[1], FALSE>>)
         /\ em_pc' = "returned"
         /\ em_queue' = <<>>
         /\ lastCall' = [op |-> "emergency_stop"]
         /\ UNCHANGED <<ordVars, tc_is_running, exeVars, pm_is_running, es_is_running, exit_current_phase,
                        closeTasks>>
    ELSE LET rest == queue
         IN  IF rest # <<>>
             THEN LET r == Get(pending_orders, rest[1])
                  IN  /\ orders' = [orders EXCEPT ![r].status = "CANCELLED",
                                                   ![r].cancelled = TRUE,
                                                   ![r].notified = "CANCELLED"]
                      /\ completed_orders' = Put(completed_orders, rest[1], r)
                      /\ pending_orders' = Pop(pending_orders, rest[1])
                      /\ em_pc' = "cancel"
                      /\ em_queue' = Tail(rest)
                      /\ em_log' = Append(log, <<"cancel_order", rest[1], TRUE>>)
                      /\ lastCall' = Other
                      /\ UNCHANGED <<tc_is_running, exeVars, pm_is_running, es_is_running, exit_current_phase,
                                     closeTasks>>
             ELSE /\ em_queue' = <<>>
                  /\ UNCHANGED ordVars
                  /\ EmergencyLiquidate(log)

\* emergency_stop's loop over the pending order ids from `queue` on, up to the
\* await of the next cancel_order that cancels; past the list, on to
\* force_liquidate_all
EmergencyCancelFrom(queue, log) ==
    LET refused == RefusedEvents(queue)
        rest == SubSeq(queue, Len(refused) + 1, Len(queue))
    IN  IF rest # <<>>
        THEN LET r == Get(pending_orders, rest[1])
             IN  /\ orders' = [orders EXCEPT ![r].status = "CANCELLED",
                                              ![r].cancelled = TRUE,
                                              ![r].notified = "CANCELLED"]
                 /\ completed_orders' = Put(completed_orders, rest[1], r)
                 /\ pending_orders' = Pop(pending_orders, rest[1])
                 /\ em_pc' = "cancel"
                 /\ em_queue' = Tail(rest)
                 /\ em_log' = (log \o refused) \o <<<<"cancel_order", rest[1], TRUE>>>>
                 /\ lastCall' = Other
                 /\ UNCHANGED <<tc_is_running, exeVars, pm_is_running, es_is_running, exit_current_phase,
                                closeTasks>>
        ELSE /\ em_queue' = <<>>
             /\ UNCHANGED ordVars
             /\ EmergencyLiquidate(log \o refused)

\* POST /trading/emergency-stop: emergency_stop
EmergencyStop ==
    /\ em_pc = "none"
    /\ EmergencyCancelFrom(KeyList(pending_orders),
                           <<<<"pending_orders", KeyList(pending_orders)>>>>)
    /\ UNCHANGED <<now, ticks, sigVars, positions, active_positions, closed_positions,
                   sesVars, current_daily_investment, buyTasks>>

\* emergency_stop goes on after a cancel_order has returned
EmergencyCancelResume ==
    /\ em_pc = "cancel"
    /\ EmergencyCancelFrom(em_queue, em_log)
    /\ UNCHANGED <<now, ticks, sigVars, positions, active_positions, closed_positions,
                   sesVars, current_daily_investment, buyTasks>>

\* emergency_stop goes on after force_liquidate_all has returned
EmergencyStopResume ==
    /\ em_pc = "stop"
    /\ em_log' = Append(em_log, <<"stop_trading_system">>)
    /\ EmergencyStopSystem
    /\ UNCHANGED <<now, ticks, sigVars, ordVars, positions, active_positions,
                   closed_positions, sesVars, current_daily_investment, buyTasks,
                   em_queue>>

\* amounts of the manual buy requests: two that fit the daily cap together,
\* and one that fits it once but not twice
ManualAmounts == {4000000, 6000000}

\* the emergency stop: the loops are started by the controller or directly on
\* the component, orders and positions are added, the execution loop runs,
\* and the operator calls emergency_stop
NextEmg ==
    \/ Tick(ExecutionInterval)
    \/ StartTradingSystem
    \/ StartExecutor
    \/ StartStrategy
    \/ StartSession(TargetData)
    \/ \E symbol \in HeldSymbols : AddBuyOrder(symbol, DefaultInvestmentAmount, TRUE)
    \/ ExecScan
    \/ \E outcome \in AnsweredOutcomes : ExecBrokerResponse(outcome)
    \/ ExecAfter
    \/ \E symbol \in HeldSymbols, quantity \in PositionQuantities :
          AddPosition(symbol, PriceOf[symbol], quantity)
    \/ EmergencyStop
    \/ EmergencyCancelResume
    \/ EmergencyStopResume
    \/ \E t \in BagToSet(closeTasks), outcome \in BrokerOutcomes : CloseFinish(t, outcome)

SpecEmg == Init /\ [][NextEmg]_vars

\* the emergency stop of a trading system started through the controller
NextBest ==
    \/ Tick(ExecutionInterval)
    \/ StartTradingSystem
    \/ \E symbol \in HeldSymbols : AddBuyOrder(symbol, DefaultInvestmentAmount, TRUE)
    \/ ExecScan
    \/ \E outcome \in AnsweredOutcomes : ExecBrokerResponse(outcome)
    \/ ExecAfter
    \/ \E symbol \in HeldSymbols, quantity \in PositionQuantities :
          AddPosition(symbol, PriceOf[symbol], quantity)
    \/ EmergencyStop
    \/ EmergencyCancelResume
    \/ EmergencyStopResume
    \/ \E t \in BagToSet(closeTasks), outcome \in BrokerOutcomes : CloseFinish(t, outcome)

SpecBest == Init /\ [][NextBest]_vars

\* manual buys against the daily cap
NextBuy ==
    \/ \E symbol \in Symbols, amount \in ManualAmounts : ExecuteManualBuy(symbol, amount)
    \/ \E i \in DOMAIN buyTasks : ManualBuyResume(i)
    \/ \E id \in KnownOrderIds : CancelOrder(id)

SpecBuy == Init /\ [][NextBuy]_vars

\* orders filled in a started trading system
NextFill ==
    \/ Tick(ExecutionInterval)
    \/ StartTradingSystem
    \/ StopTradingSystem
    \/ \E symbol \in Symbols, amount \in ManualAmounts : ExecuteManualBuy(symbol, amount)
    \/ \E i \in DOMAIN buyTasks : ManualBuyResume(i)
    \/ ExecScan
    \/ \E outcome \in BrokerOutcomes : ExecBrokerResponse(outcome)
    \/ ExecAfter

SpecFill == Init /\ [][NextFill]_vars

(***************************************************************************)
(* Threshold Adjuster.  Thresholds, volatility_index and average_change    *)
(* are in hundredths of a percent, adjustment factors in hundredths, and   *)
(* an adjusted threshold before rounding in ten-thousandths of a percent.  *)
(***************************************************************************)
min_threshold == 50
max_threshold == 500
FactorScale == 100

\* time_adjustment_factors: the factor of the latest half hour reached
TimeFactor(minute_of_day) ==
    IF minute_of_day >= 17 * 60 + 30 THEN 70
    ELSE IF minute_of_day >= 17 * 60 THEN 80
    ELSE IF minute_of_day >= 16 * 60 + 30 THEN 90
    ELSE 100

\* total_rise_count / total_stock_count compared with tenths / 10; the ratio
\* is 0 when total_stock_count is not positive
RiseRatioAbove(market_condition, tenths) ==
    /\ market_condition.total_stock_count > 0
    /\ market_condition.total_rise_count * 10 > tenths * market_condition.total_stock_count
RiseRatioBelow(market_condition, tenths) ==
    \/ market_condition.total_stock_count <= 0
    \/ market_condition.total_rise_count * 10 < tenths * market_condition.total_stock_count

ApplyTimeBasedAdjustment(threshold, minute_of_day) ==
    threshold * TimeFactor(minute_of_day)

ApplyConservativeAdjustment(threshold, market_condition) ==
    threshold * (120 + (IF market_condition.volatility_index > 200 THEN 10 ELSE 0)
                     + (IF RiseRatioBelow(market_condition, 3) THEN 10 ELSE 0))

ApplyAggressiveAdjustment(threshold, market_condition) ==
    LET adjustment == 80 - (IF RiseRatioAbove(market_condition, 7) THEN 10 ELSE 0)
                         - (IF market_condition.average_change > 200 THEN 10 ELSE 0)
    IN  threshold * (IF adjustment > 50 THEN adjustment ELSE 50)

\* the product of three factors is brought back to ten-thousandths
ApplyBalancedAdjustment(threshold, market_condition, minute_of_day) ==
    LET market_factor == IF RiseRatioAbove(market_condition, 6) THEN 90
                         ELSE IF RiseRatioBelow(market_condition, 4) THEN 110
                         ELSE 100
    IN  (ApplyTimeBasedAdjustment(threshold, minute_of_day) * market_factor)
           \div FactorScale

\* max(min_threshold, min(max_threshold, new_threshold)), and the clamp that
\* has no lower end
ClampThresholdAbove(new_threshold) ==
    IF new_threshold > max_threshold * FactorScale THEN max_threshold * FactorScale
    ELSE new_threshold

ClampThreshold(new_threshold) ==
    IF new_threshold > max_threshold * FactorScale THEN max_threshold * FactorScale
    ELSE IF new_threshold < min_threshold * FactorScale THEN min_threshold * FactorScale
    ELSE new_threshold

\* round(x, 2): the nearest hundredth; halfway between two hundredths the
\* binary value of x decides, so either neighbour can come out
RoundTwo(x) ==
    LET below == (x - (x % FactorScale)) \div FactorScale
    IN  IF x % FactorScale = 0 THEN {below}
        ELSE IF 2 * (x % FactorScale) < FactorScale THEN {below}
        ELSE IF 2 * (x % FactorScale) > FactorScale THEN {below + 1}
        ELSE {below, below + 1}

Strategies == {"TIME_BASED", "CONSERVATIVE", "AGGRESSIVE", "BALANCED"}

\* the values recommended_threshold can take
CalculateAdjustment(current_threshold, market_condition, minute_of_day, strategy) ==
    LET new_threshold ==
           IF strategy = "TIME_BASED"
           THEN ApplyTimeBasedAdjustment(current_threshold, minute_of_day)
           ELSE IF strategy = "CONSERVATIVE"
           THEN ApplyConservativeAdjustment(current_threshold, market_condition)
           ELSE IF strategy = "AGGRESSIVE"
           THEN ApplyAggressiveAdjustment(current_threshold, market_condition)
           ELSE ApplyBalancedAdjustment(current_threshold, market_condition,
                                        minute_of_day)
    IN  RoundTwo(ClampThreshold(new_threshold))

\* inputs of calculate_adjustment: thresholds on both sides of the range,
\* the half hours of the session, markets from no stock at all to all stocks
\* rising, volatility and average change on both sides of their breakpoints
MaxThresholdInput == 600
StockCount == 10
ThresholdInputs == (0 - MaxThresholdInput) .. MaxThresholdInput
MinuteInputs == {0, 16 * 60, 16 * 60 + 30, 17 * 60, 17 * 60 + 30}
MarketConditions ==
    {[total_rise_count |-> rise, total_stock_count |-> total,
      average_change |-> avg, volatility_index |-> vol] :
        total \in {0, StockCount}, rise \in 0 .. StockCount,
        avg \in {200, 201}, vol \in {200, 201, 100 * FactorScale}}

CalculateAdjustmentCall ==
    /\ lastCall.op = "adjustment_request"
    /\ \E recommended \in CalculateAdjustment(lastCall.current_threshold,
                                               lastCall.market_condition,
                                               lastCall.minute_of_day,
                                               lastCall.strategy) :
          lastCall' = [lastCall EXCEPT !.op = "calculate_adjustment",
                                       !.recommended_threshold = recommended]
    /\ UNCHANGED <<now, ticks, sigVars, ordVars, exeVars, posVars, sesVars, ctlVars>>

InitAdj ==
    /\ now = 0
    /\ signals = <<>>
    /\ active_signals = <<>>
    /\ auto_execution_enabled = TRUE
    /\ InitComponents
    /\ lastCall \in [op : {"adjustment_request"},
                      current_threshold : ThresholdInputs,
                      market_condition : {m \in MarketConditions :
                                             m.total_rise_count <= m.total_stock_count},
                      minute_of_day : MinuteInputs,
                      strategy : Strategies,
                      recommended_threshold : {0}]

NextAdj == CalculateAdjustmentCall

SpecAdj == InitAdj /\ [][NextAdj]_vars

(***************************************************************************)
(* Stock Scorer.  change_percent is in thousandths of a percent and a      *)
(* momentum score in units of 1/MomentumScale of a point, so that the      *)
(* slope 6.67 is the integer 667 per thousandth.  A strength score is kept *)
(* multiplied by 2 * (day_high - day_low), which makes every branch of the *)
(* function an integer for integer prices.                                 *)
(***************************************************************************)
MomentumScale == 100000

\* calculate_momentum_score
CalculateMomentumScore(change_percent) ==
    IF change_percent >= 10 * PercentScale THEN 100 * MomentumScale
    ELSE IF change_percent >= 5 * PercentScale
    THEN 80 * MomentumScale + (change_percent - 5 * PercentScale) * 400
    ELSE IF change_percent >= 2 * PercentScale
    THEN 60 * MomentumScale + (change_percent - 2 * PercentScale) * 667
    ELSE IF change_percent >= 0
    THEN 30 * MomentumScale + change_percent * 1500
    ELSE IF change_percent >= 0 - 2 * PercentScale
    THEN 15 * MomentumScale + (change_percent + 2 * PercentScale) * 750
    ELSE LET below == 15 * MomentumScale + (change_percent + 2 * PercentScale) * 750
         IN  IF below > 0 THEN below ELSE 0

\* calculate_strength_score times 2 * (day_high - day_low); position is
\* n / d, and position >= k / 10 is 10 * n >= k * d
CalculateStrengthScore(current_price, day_high, day_low) ==
    LET n == current_price - day_low
        d == day_high - day_low
    IN  IF day_high <= day_low THEN 50
        ELSE IF 10 * n >= 9 * d THEN 200 * d
        ELSE IF 10 * n >= 8 * d THEN 170 * d + (10 * n - 8 * d) * 30
        ELSE IF 10 * n >= 6 * d THEN 120 * d + (10 * n - 6 * d) * 25
        ELSE IF 10 * n >= 4 * d THEN 70 * d + (10 * n - 4 * d) * 25
        ELSE 175 * n

\* inputs of the two scores: every thousandth of a percent between the two
\* ends, and every price of a day's range and a little beyond it, for ranges
\* that hit the breakpoints of position and ranges that do not
MaxChangeInput == 12000
ChangeInputs == (0 - MaxChangeInput) .. MaxChangeInput
DayLow == 10000
MaxDayRange == 137
DayRanges == {0, 100, MaxDayRange}
PriceMargin == 20
ScoreRequests ==
    [op : {"momentum_request"}, change_percent : ChangeInputs]
       \cup {[op |-> "strength_request", current_price |-> DayLow + n,
               day_high |-> DayLow + d, day_low |-> DayLow] :
                 d \in DayRanges, n \in (0 - PriceMargin) .. (MaxDayRange + PriceMargin)}

MomentumScoreCall ==
    /\ lastCall.op = "momentum_request"
    /\ lastCall' = [op |-> "calculate_momentum_score",
                    change_percent |-> lastCall.change_percent,
                    returned |-> CalculateMomentumScore(lastCall.change_percent)]
    /\ UNCHANGED <<now, ticks, sigVars, ordVars, exeVars, posVars, sesVars, ctlVars>>

StrengthScoreCall ==
    /\ lastCall.op = "strength_request"
    /\ lastCall' = [op |-> "calculate_strength_score",
                    current_price |-> lastCall.current_price,
                    day_high |-> lastCall.day_high, day_low |-> lastCall.day_low,
                    returned |-> CalculateStrengthScore(lastCall.current_price,
                                                        lastCall.day_high,
                                                        lastCall.day_low)]
    /\ UNCHANGED <<now, ticks, sigVars, ordVars, exeVars, posVars, sesVars, ctlVars>>

InitScore ==
    /\ now = 0
    /\ signals = <<>>
    /\ active_signals = <<>>
    /\ auto_execution_enabled = TRUE
    /\ InitComponents
    /\ lastCall \in ScoreRequests

NextScore ==
    \/ MomentumScoreCall
    \/ StrengthScoreCall

SpecScore == InitScore /\ [][NextScore]_vars

(***************************************************************************)
(* Time-Based Exit Strategy (server/app/core/trading/exit_strategy.py).    *)
(* The strategy loop derives the exit phase from the time of day on every  *)
(* check and, when the phase differs from the one it holds, overwrites the *)
(* targets of the positions then in the position manager's active map.     *)
(* The runs below close one position at a time.                            *)
(***************************************************************************)
\* self.exit_targets[phase]
ExitTargetOf(phase) ==
    ExitTargets[CHOOSE i \in DOMAIN ExitTargets : ExitTargets[i].phase = phase]

\* the references the transition would touch if it walked every Position
\* object ever created, and those it walks: active_positions.values()
TransitionTouchesAll == DOMAIN positions

TransitionTouches == Refs(Live(active_positions))

\* _phase_transition, up to its first await
PhaseTransition(new_phase) ==
    /\ exit_current_phase' = new_phase
    /\ positions' =
           [r \in DOMAIN positions |->
               IF r \in TransitionTouches
               THEN [positions[r] EXCEPT
                        !.target_profit_percent = ExitTargetOf(new_phase).profit_target,
                        !.stop_loss_percent = ExitTargetOf(new_phase).stop_loss]
               ELSE positions[r]]

\* the strategy loop's window: 09:00 <= now <= 15:30
InStrategyWindow ==
    /\ TimeOfDay(9, 0) <= SecondOfDay
    /\ SecondOfDay <= MarketCloseMinute * 60

\* evaluate_exit_conditions as the strategy loop calls it; the evaluation of
\* the positions that follows the transition sends recommendations and
\* changes no state
EvaluateExitConditions ==
    LET phase == GetCurrentPhase(SecondOfDay) IN
    /\ es_is_running
    /\ InStrategyWindow
    /\ IF phase # exit_current_phase THEN PhaseTransition(phase)
       ELSE UNCHANGED <<positions, exit_current_phase>>
    /\ lastCall' = [op |-> "evaluate_exit_conditions", phase |-> phase,
                    transition |-> (phase # exit_current_phase)]
    /\ UNCHANGED <<now, ticks, sigVars, ordVars, exeVars, sesVars, active_positions,
                   closed_positions, pm_is_running, closeTasks, tc_is_running,
                   current_daily_investment, es_is_running, buyTasks, em_pc,
                   em_queue, em_log>>

\* clock advances of the exit strategy's runs: the length of a phase
PhaseSteps == {2 * SecondsPerHour}

ExitClock(d) ==
    /\ now + d <= LastSecond
    /\ now' = now + d
    /\ lastCall' = Other
    /\ UNCHANGED <<ticks, sigVars, ordVars, exeVars, posVars, sesVars, ctlVars>>

NextExit ==
    \/ \E d \in PhaseSteps : ExitClock(d)
    \/ StartStrategy
    \/ EvaluateExitConditions
    \/ \E symbol \in HeldSymbols, quantity \in PositionQuantities :
          AddPosition(symbol, PriceOf[symbol], quantity)
    \/ \E id \in KnownPositionIds : closeTasks = EmptyBag /\ ClosePosition(id)
    \/ \E t \in BagToSet(closeTasks), outcome \in AnsweredOutcomes :
          CloseFinish(t, outcome)

SpecExit == Init /\ [][NextExit]_vars

(***************************************************************************)
(* The time-adjusted profit target, applied at every second of the         *)
(* strategy loop's window.  phase_progress is kept in 1/ProgressScale and  *)
(* the target in 1/TargetScale of a hundredth of a percent, so that the    *)
(* products of the code are exact.                                         *)
(***************************************************************************)
ProgressScale == 7200
TargetScale == 100 * ProgressScale
\* the floor 0.5 of the adjusted target, in hundredths of a percent
MinAdjustedTarget == 50

\* min(1.0, max(0.0, elapsed_in_phase / phase_duration))
PhaseProgress(target, current_time) ==
    LET phase_duration == target.end_time - target.start_time
        elapsed_in_phase == current_time - target.start_time
        clamped == IF elapsed_in_phase < 0 THEN 0
                   ELSE IF elapsed_in_phase > phase_duration THEN phase_duration
                   ELSE elapsed_in_phase
    IN  (clamped * ProgressScale) \div phase_duration

\* _calculate_time_adjusted_target
CalculateTimeAdjustedTarget(target, current_time) ==
    LET time_decay_factor == 10 * ProgressScale - 3 * PhaseProgress(target, current_time)
        adjusted_target == target.profit_target * time_decay_factor
                              * target.urgency_multiplier
    IN  IF adjusted_target < MinAdjustedTarget * TargetScale
        THEN MinAdjustedTarget * TargetScale
        ELSE adjusted_target

\* the call evaluate_exit_conditions makes for a position: the target of the
\* phase derived from the time of day, and that time
TimeAdjustedTargetCall ==
    /\ lastCall.op = "target_request"
    /\ InStrategyWindow
    /\ lastCall' = [op |-> "_calculate_time_adjusted_target",
                    phase |-> GetCurrentPhase(SecondOfDay),
                    current_time |-> SecondOfDay,
                    returned |-> CalculateTimeAdjustedTarget(
                                    ExitTargetOf(GetCurrentPhase(SecondOfDay)),
                                    SecondOfDay)]
    /\ UNCHANGED <<now, ticks, sigVars, ordVars, exeVars, posVars, sesVars, ctlVars>>

\* the seconds of the strategy loop's window, counted from market open
WindowSeconds == 0 .. (MarketCloseMinute * 60 - MarketOpenSecond)

InitTarget ==
    /\ now \in WindowSeconds
    /\ signals = <<>>
    /\ active_signals = <<>>
    /\ auto_execution_enabled = TRUE
    /\ InitComponents
    /\ lastCall = [op |-> "target_request"]

NextTarget == TimeAdjustedTargetCall

SpecTarget == InitTarget /\ [][NextTarget]_vars

(***************************************************************************)
(* The signal processor over more than a day: cleanup_expired_signals is   *)
(* called by the operator (POST /orders/signals/cleanup), at any time.     *)
(***************************************************************************)
\* clock advances of these runs: the confirmation timeout passed, and a day
ExpirySteps == {ConfirmationTimeout + 1, SecondsPerDay}
LastExpirySecond == SecondsPerDay + ConfirmationTimeout + 1

\* the timeout is let pass once a day
ExpiryClock(d) ==
    /\ now + d <= LastExpirySecond
    /\ d < SecondsPerDay => now % SecondsPerDay = 0
    /\ now' = now + d
    /\ lastCall' = Other
    /\ UNCHANGED <<ticks, sigVars, ordVars, exeVars, posVars, sesVars, ctlVars>>

NextExp ==
    \/ \E d \in ExpirySteps : ExpiryClock(d)
    \/ \E symbol \in Symbols, chg \in ChangePercents, vol \in Volumes :
          ProcessPriceUpdate(symbol, PriceOf[symbol], chg, vol)
    \/ \E i \in DOMAIN autoTasks : AutoConfirm(i)
    \/ \E i \in DOMAIN confirmTasks : ConfirmResume(i)
    \/ CleanupExpiredSignals

SpecExp == Init /\ [][NextExp]_vars

(***************************************************************************)
(* The four background loops and their stop calls, side by side.  Each     *)
(* stop_* cancels the loop task and awaits it, so the cancelled loop has   *)
(* run its handlers when the call returns.  One order, one position and    *)
(* non-triggering quotes suffice to put every loop into each of its        *)
(* places; the loops of different subsystems share no state.               *)
(***************************************************************************)
\* the coroutines that end with the loop of an owner: those the loop awaits
CancelledWithNone(owner) == {}

CancelledWith(owner) == {x \in BagToSet(closeTasks) : x.owner = owner}

\* stop_strategy
StopStrategy ==
    /\ es_is_running
    /\ es_is_running' = FALSE
    /\ closeTasks' = [t \in BagToSet(closeTasks) \ CancelledWith("exit_strategy")
                         |-> closeTasks[t]]
    /\ lastCall' = [op |-> "stop_strategy"]
    /\ UNCHANGED <<now, ticks, sigVars, ordVars, exeVars, sesVars, positions,
                   active_positions, closed_positions, pm_is_running, tc_is_running,
                   current_daily_investment, exit_current_phase, buyTasks, em_pc,
                   em_queue, em_log>>

\* the clock of these runs: from market open to the forced liquidation, and
\* from there into the first phase of the after-hours session
StopClock ==
    /\ now \in {0, LastSecond}
    /\ now' = IF now = 0 THEN LastSecond ELSE PhaseTimes.PHASE_1 - MarketOpenSecond
    /\ lastCall' = Other
    /\ UNCHANGED <<ticks, sigVars, ordVars, exeVars, posVars, sesVars, ctlVars>>

\* quotes below every buy threshold, and the feed's failures
QuietPriceData ==
    NoPriceData \cup [kind : {"data"}, change_percent : {PercentScale}, volume : Volumes]

\* the runs follow one subsystem at a time: the executor, the position
\* manager with the exit strategy, or the session manager
ExecutorQuiet == orders = <<>> /\ ~is_running
PositionsQuiet == positions = <<>> /\ ~pm_is_running /\ ~es_is_running
SessionQuiet == session_started = 0

\* the strategy loop is running and awaits no close_position
StrategyLoopFree == es_is_running /\ CancelledWith("exit_strategy") = {}

ExecutorRuns ==
    /\ PositionsQuiet /\ SessionQuiet
    /\ \/ \E symbol \in HeldSymbols :
             orders = <<>> /\ AddBuyOrder(symbol, DefaultInvestmentAmount, TRUE)
       \/ StartExecutor
       \/ StopExecutor
       \/ ExecScan
       \/ \E outcome \in BrokerOutcomes : ExecBrokerResponse(outcome)
       \/ ExecAfter

PositionRuns ==
    /\ ExecutorQuiet /\ SessionQuiet
    /\ \/ \E symbol \in HeldSymbols, quantity \in PositionQuantities :
             positions = <<>> /\ AddPosition(symbol, PriceOf[symbol], quantity)
       \/ StartMonitoring
       \/ StopMonitoring
       \/ CheckTimeBasedExits
       \/ \E t \in BagToSet(closeTasks), outcome \in AnsweredOutcomes :
             CloseFinish(t, outcome)
       \/ StartStrategy
       \/ StopStrategy
       \/ StrategyLoopFree /\ EvaluateExitConditions
       \/ StrategyLoopFree /\ ForceExitAllPositions

SessionRuns ==
    /\ ExecutorQuiet /\ PositionsQuiet
    /\ \/ StartSession(TargetData)
       \/ StopSession
       \/ SessionCancelled
       \/ SessionLoopTick
       \/ \E price_data \in QuietPriceData : SessionPollResponse(price_data)

NextStop ==
    \/ StopClock
    \/ ExecutorRuns
    \/ PositionRuns
    \/ SessionRuns

SpecStop == Init /\ [][NextStop]_vars

(***************************************************************************)
(* The execution loop under fair scheduling.  The event loop resumes a     *)
(* task whose await is over, every sleep ends, and every broker call       *)
(* returns with success or failure; stop_executor is not called.  Orders   *)
(* are added before LastOrderSecond; the seconds from it on are folded     *)
(* into one, in which a sleep ends without moving the clock.               *)
(***************************************************************************)
LastOrderSecond == 2

LiveClock ==
    /\ now < LastOrderSecond
    /\ now' = now + 1
    /\ lastCall' = Other
    /\ UNCHANGED <<ticks, sigVars, ordVars, exeVars, posVars, sesVars, ctlVars>>

\* asyncio.sleep returns: the loop's sleep is over
SleepEnds ==
    /\ now = LastOrderSecond
    /\ execPc \in {"sleep", "after"}
    /\ execWake > now
    /\ execWake' = now
    /\ lastCall' = Other
    /\ UNCHANGED <<now, ticks, sigVars, ordVars, posVars, sesVars, ctlVars,
                   is_running, execPc, execQueue, execCur>>

BrokerReturns == \E outcome \in AnsweredOutcomes : ExecBrokerResponse(outcome)

NextLive ==
    \/ LiveClock
    \/ SleepEnds
    \/ \E symbol \in Symbols, auto \in BOOLEAN :
          now < LastOrderSecond /\ AddBuyOrder(symbol, DefaultInvestmentAmount, auto)
    \/ \E id \in KnownOrderIds : CancelOrder(id)
    \/ StartExecutor
    \/ ExecScan
    \/ BrokerReturns
    \/ ExecAfter

SpecLive ==
    /\ Init
    /\ [][NextLive]_vars
    /\ WF_vars(LiveClock)
    /\ WF_vars(SleepEnds)
    /\ WF_vars(StartExecutor)
    /\ WF_vars(ExecScan)
    /\ WF_vars(BrokerReturns)
    /\ WF_vars(ExecAfter)

(***************************************************************************)
(* Properties of the Buy-Signal Processor (checked under SpecSig).         *)
(***************************************************************************)

\* C1: the active set never holds two signals of one symbol, and a
\* process_price_update for a symbol that has an active signal creates no
\* signal and leaves the active and the processed set as they were.
C1_SignalExclusivity ==
    /\ \A i, j \in DOMAIN active_signals :
          signals[active_signals[i][2]].symbol = signals[active_signals[j][2]].symbol
             => i = j
    /\ lastCall.op = "process_price_update" /\ lastCall.had_active
          => ~lastCall.created /\ lastCall.sets_unchanged

\* a price update above the threshold arrived for a symbol with an active
\* signal while both symbols had one
C1_Witness ==
    /\ lastCall.op = "process_price_update"
    /\ lastCall.had_active
    /\ Cardinality(ActiveSymbols) = 2

\* C9: once confirm_signal has returned true for a signal, the signal is in
\* the processed set and not in the active set.
C9_ConfirmedSignalIsProcessed ==
    \A r \in DOMAIN signals :
        signals[r].confirm_returned
           => r \notin Refs(active_signals) /\ r \in Refs(processed_signals)

\* C10: no signal ever has more than one buy order added for it, and a
\* confirm_signal call for an unknown or an already confirmed signal returns
\* false and adds no order.
C10_OneOrderPerSignal ==
    /\ \A r \in DOMAIN signals : signals[r].orders_placed <= 1
    /\ lastCall.op = "confirm_signal" /\ (~lastCall.found \/ lastCall.was_confirmed)
          => lastCall.returned = "false" /\ ~lastCall.order_added

\* a confirm call arrived for a signal whose earlier confirm was still
\* suspended inside add_buy_order, its one order already added
C10_Witness ==
    /\ lastCall.op = "confirm_signal"
    /\ lastCall.was_confirmed
    /\ \E i \in DOMAIN confirmTasks :
          /\ signals[confirmTasks[i].signal].orders_placed = 1
          /\ confirmTasks[i].signal \in Refs(active_signals)

\* the four conditions of signal creation, on the state before the call
CreationConditions(symbol, change_percent, volume) ==
    /\ change_percent >= DefaultThreshold
    /\ symbol \notin ActiveSymbols
    /\ Len(active_signals) < MaxPendingSignals
    /\ volume >= MinVolume

\* the step appended one signal for the symbol to the heap and to active_signals
CreatedSignal(symbol) ==
    /\ Len(signals') = Len(signals) + 1
    /\ signals'[Len(signals')].symbol = symbol
    /\ Len(signals') \in Refs(active_signals')
    /\ Len(active_signals') = Len(active_signals) + 1

\* C12: process_price_update creates a signal exactly when the change percent
\* reaches the threshold, the symbol has no active signal, fewer than
\* max_pending_signals signals are active and the volume is at least 100,000;
\* otherwise it leaves active_signals and processed_signals unchanged; the
\* number of active signals never exceeds max_pending_signals
C12_CreationConditions ==
    /\ [](Len(active_signals) <= MaxPendingSignals)
    /\ [][\A symbol \in Symbols, chg \in ChangePercents, vol \in Volumes :
            ProcessPriceUpdate(symbol, PriceOf[symbol], chg, vol)
               => IF CreationConditions(symbol, chg, vol)
                  THEN CreatedSignal(symbol)
                  ELSE /\ signals' = signals
                       /\ active_signals' = active_signals
                       /\ processed_signals' = processed_signals]_vars

\* max_pending_signals signals are active, one of them created by a price
\* update of the run, and the last update, for a symbol without an active
\* signal, was refused
C12_Witness ==
    /\ Len(active_signals) = MaxPendingSignals
    /\ "AAA" \in ActiveSymbols
    /\ lastCall.op = "process_price_update"
    /\ ~lastCall.had_active
    /\ ~lastCall.created

\* C11: a signal leaves active_signals through one of confirmation, rejection
\* and expiry only: a signal that reject_signal or cleanup_expired_signals took
\* out of active_signals was never confirmed, and no buy order was ever placed
\* for it
C11_SingleExit ==
    \A r \in DOMAIN signals :
        signals[r].left_by \in {"REJECTED", "EXPIRED"}
            => ~signals[r].is_confirmed /\ signals[r].orders_placed = 0

\* C15: cancel_order returns true only for an id under which pending_orders
\* holds an order of status PENDING, and then that order is in
\* completed_orders with status CANCELLED; in every other case it returns
\* false and changes no order and no collection; an order it cancelled keeps
\* the status CANCELLED, so the execution loop never sends it to the broker
C15_CancelOnlyPending ==
    /\ [](\A r \in DOMAIN orders : orders[r].cancelled => orders[r].status = "CANCELLED")
    /\ [][\A id \in KnownOrderIds :
            CancelOrder(id)
               => IF /\ Has(pending_orders, id)
                     /\ orders[Get(pending_orders, id)].status = "PENDING"
                  THEN /\ lastCall'.returned
                       /\ ~Has(pending_orders', id)
                       /\ Get(completed_orders', id) = Get(pending_orders, id)
                       /\ orders'[Get(pending_orders, id)].status = "CANCELLED"
                  ELSE /\ ~lastCall'.returned
                       /\ UNCHANGED ordVars]_vars

\* cancel_order has just returned true for an order that the execution loop,
\* busy with another order, still has ahead of it in the scan it is working
\* through
C15_Witness ==
    /\ lastCall.op = "cancel_order"
    /\ lastCall.returned
    /\ execPc = "broker"
    /\ \E i \in DOMAIN execQueue :
          orders[execQueue[i]].cancelled /\ orders[execQueue[i]].auto_execute

\* the step added exactly one order, PENDING and in pending_orders, of this quantity
AddedOneOrder(quantity) ==
    /\ Len(orders') = Len(orders) + 1
    /\ orders'[Len(orders')].quantity = quantity
    /\ orders'[Len(orders')].status = "PENDING"
    /\ Has(pending_orders', orders'[Len(orders')].order_id)
    /\ Get(pending_orders', orders'[Len(orders')].order_id) = Len(orders')
    /\ completed_orders' = completed_orders

\* what a call of add_buy_order with this amount and price must do
AddsFloorQuantity(investment_amount, target_price) ==
    IF investment_amount \div target_price > 0
    THEN AddedOneOrder(investment_amount \div target_price)
    ELSE UNCHANGED ordVars

\* C14: add_buy_order creates one PENDING order of quantity
\* floor(investment_amount / target_price), and raises, adding no order to
\* pending_orders or completed_orders, when that quantity is not positive;
\* confirming a signal with amount A (or with the signal's own amount when
\* none is given) adds one order of quantity floor(A / current_price)
C14_FloorQuantity ==
    [][/\ \A symbol \in HeldSymbols, amount \in OrderAmounts :
            AddBuyOrder(symbol, amount, TRUE)
               => /\ AddsFloorQuantity(amount, PriceOf[symbol])
                  /\ lastCall'.raised = ~(amount \div PriceOf[symbol] > 0)
       /\ \A id \in KnownSignalIds, amount \in ConfirmAmounts :
            /\ ConfirmSignal(id, amount)
            /\ Has(active_signals, id)
            /\ ~signals[Get(active_signals, id)].is_confirmed
            => LET sig == signals[Get(active_signals, id)]
               IN  AddsFloorQuantity(IF amount # 0 THEN amount ELSE sig.investment_amount,
                                     sig.current_price)]_vars

\* a signal was confirmed with an amount that is no multiple of its price and
\* got its one order, of the quotient rounded down, and the last call of
\* add_buy_order raised
C14_Witness ==
    /\ lastCall.op = "add_buy_order"
    /\ lastCall.raised
    /\ \E r \in DOMAIN signals, o \in DOMAIN orders :
          /\ signals[r].orders_placed = 1
          /\ signals[r].investment_amount = 25000
          /\ signals[r].symbol = "AAA"
          /\ orders[o].symbol = "AAA"
          /\ orders[o].quantity = 2
          /\ Cardinality({q \in DOMAIN orders : orders[q].symbol = "AAA"}) = 1

(***************************************************************************)
(* Properties of the Session Manager (checked under SpecSes).              *)
(***************************************************************************)
\* a threshold after the decay of each phase of a sequence of phase changes
RECURSIVE Decayed(_, _)
Decayed(threshold, phases) ==
    IF phases = <<>> THEN threshold
    ELSE LET decayed == Decayed(threshold, SubSeq(phases, 1, Len(phases) - 1))
             phase == phases[Len(phases)]
         IN  IF phase = "PHASE_1" THEN decayed
             ELSE IF phase = "PHASE_2" THEN (decayed * 9) \div 10
             ELSE IF phase = "PHASE_3" THEN (decayed * 8) \div 10
             ELSE IF phase = "PHASE_4" THEN (decayed * 7) \div 10
             ELSE decayed

\* the phase changes a target's threshold has decayed with: all of the
\* session's for an untriggered target, those before its trigger otherwise
DecayingChanges(target) ==
    IF target.is_triggered THEN SubSeq(phase_changes, 1, target.changes_at_trigger)
    ELSE phase_changes

\* C17: with no manual adjustment, the buy_threshold of an untriggered target
\* is its initial threshold multiplied once by the factor of every phase the
\* session has changed to (1.0, 0.9, 0.8, 0.7 for PHASE_1 to PHASE_4), so in
\* PHASE_4 after all four phases it is initial x 0.9 x 0.8 x 0.7; the
\* buy_threshold of a triggered target is what it was at its trigger
C17_CumulativeDecay ==
    /\ \A i, j \in DOMAIN phase_changes : phase_changes[i] = phase_changes[j] => i = j
    /\ \A k \in DOMAIN monitoring_targets :
          LET target == monitoring_targets[k]
          IN  ~target.adjusted
                 => /\ target.buy_threshold
                          = Decayed(target.initial_threshold, DecayingChanges(target))
                    /\ (/\ ~target.is_triggered
                        /\ current_phase = "PHASE_4"
                        /\ \A phase \in {"PHASE_2", "PHASE_3", "PHASE_4"} :
                              \E i \in DOMAIN phase_changes : phase_changes[i] = phase)
                          => target.buy_threshold * 1000
                                = target.initial_threshold * 9 * 8 * 7

\* in PHASE_4, after the four phase changes, one target was triggered in
\* PHASE_1 and keeps its initial threshold, another is untriggered
C17_Witness ==
    /\ current_phase = "PHASE_4"
    /\ phase_changes = <<"PHASE_1", "PHASE_2", "PHASE_3", "PHASE_4">>
    /\ \E k, l \in DOMAIN monitoring_targets :
          /\ monitoring_targets[k].is_triggered
          /\ monitoring_targets[k].changes_at_trigger = 1
          /\ monitoring_targets[k].buy_threshold = monitoring_targets[k].initial_threshold
          /\ ~monitoring_targets[l].is_triggered
          /\ ~monitoring_targets[l].adjusted
          /\ monitoring_targets[l].buy_threshold < monitoring_targets[l].initial_threshold

\* C18: start_session called while a session is running returns false and
\* changes neither the monitoring targets nor the session loop, and starts no
\* second loop
C18_StartWhileRunning ==
    /\ [](lastCall.op = "start_session" /\ lastCall.was_running
             => ~lastCall.returned)
    /\ [][StartSession(TargetData) /\ session_is_running
             => /\ lastCall'.op = "start_session"
                /\ lastCall'.returned = FALSE
                /\ monitoring_targets' = monitoring_targets
                /\ session_started' = session_started
                /\ <<session_pc, session_cur, session_wake>>'
                      = <<session_pc, session_cur, session_wake>>
                /\ <<session_is_running, current_phase, phase_changes>>'
                      = <<session_is_running, current_phase, phase_changes>>]_vars

\* a start request was refused while the loop of the running session was
\* waiting for a price, with one target triggered and a decayed threshold
C18_Witness ==
    /\ lastCall.op = "start_session"
    /\ lastCall.was_running
    /\ ~lastCall.returned
    /\ session_is_running
    /\ session_pc = "poll"
    /\ \E k \in DOMAIN monitoring_targets : monitoring_targets[k].is_triggered
    /\ \E k \in DOMAIN monitoring_targets :
          monitoring_targets[k].buy_threshold < monitoring_targets[k].initial_threshold

\* C19: the tick of a running session at 17:40 or later reports the final
\* counts once (as many triggered as there are targets with is_triggered, out
\* of as many as there are targets), polls no price, and ends the session:
\* is_running is false and the loop has ended; no session reports twice
C19_CompletionReport ==
    /\ [](\A i, j \in DOMAIN session_reports :
             session_reports[i].session = session_reports[j].session => i = j)
    /\ [][(/\ SessionLoopTick
            /\ session_is_running
            /\ SecondOfDay >= TimeOfDay(17, 40))
             => /\ Len(session_reports') = Len(session_reports) + 1
                /\ SubSeq(session_reports', 1, Len(session_reports)) = session_reports
                /\ session_reports'[Len(session_reports')].triggered_count
                      = Cardinality({k \in DOMAIN monitoring_targets' :
                                        monitoring_targets'[k].is_triggered})
                /\ session_reports'[Len(session_reports')].total_targets
                      = Len(monitoring_targets')
                /\ session_reports'[Len(session_reports')].session = session_started
                /\ session_pc' = "none"
                /\ ~session_is_running'
                /\ signals' = signals]_vars
    /\ [](session_pc \in {"poll", "confirm"}
             => current_phase \in {"PHASE_1", "PHASE_2", "PHASE_3", "PHASE_4"})

\* a session with one of its two targets triggered has reported at 17:40 or
\* later and has ended
C19_Witness ==
    /\ lastCall = [op |-> "session_tick", phase |-> "COMPLETED"]
    /\ session_reports # <<>>
    /\ session_reports[Len(session_reports)].triggered_count = 1
    /\ session_reports[Len(session_reports)].total_targets = 2
    /\ ~session_is_running
    /\ session_pc = "none"

\* the Position objects in the active map and in the closed map
ActiveRefs == {active_positions[i][2] : i \in DOMAIN active_positions} \ {0}
ClosedRefs == {closed_positions[i][2] : i \in DOMAIN closed_positions}

\* C20: while monitoring runs, a monitoring tick at 15:20 or later starts to
\* close every active position with reason FORCE_LIQUIDATION, whatever its
\* should_exit() says, and when the broker's sell succeeds in the end for each
\* of them every position active at 15:20 or later is eventually in closed
C20_ForceLiquidation ==
    /\ [][(CheckTimeBasedExits /\ MinuteOfDay >= ForceLiquidationMinute)
             => \E t \in BagToSet(closeTasks') :
                   /\ closeTasks' = closeTasks (+) SetToBag({t})
                   /\ t.owner = "monitor"
                   /\ t.exit_reason = "FORCE_LIQUIDATION"
                   /\ <<t.position_id>> \o t.rest = KeyList(Live(active_positions))]_vars
    /\ [](\A t \in BagToSet(closeTasks) :
             t.owner = "monitor" /\ t.kind = "sweep" /\ MinuteOfDay >= ForceLiquidationMinute
                => t.exit_reason = "FORCE_LIQUIDATION")
    /\ \A r \in 1 .. MaxPositions :
          (pm_is_running /\ MinuteOfDay >= ForceLiquidationMinute /\ r \in ActiveRefs)
             ~> (r \in ClosedRefs)

\* what emergency_stop listed and called, read from its log
EmListedPositions ==
    UNION {em_log[i][2] : i \in {j \in DOMAIN em_log : em_log[j][1] = "force_liquidate_all"}}
EmClosedPositions ==
    {em_log[i][2] : i \in {j \in DOMAIN em_log : em_log[j][1] = "close_position"}}
PendingRefs == {pending_orders[i][2] : i \in DOMAIN pending_orders}

\* C21: when emergency_stop returns, no order in pending has status PENDING,
\* a force-liquidation close was attempted for every position that was
\* active, and no background loop is running (order execution, position
\* monitoring, exit strategy, after-hours session), however it was started
C21_EmergencyStopsAll ==
    lastCall.op = "emergency_stop"
       => /\ \A r \in PendingRefs : orders[r].status # "PENDING"
          /\ EmListedPositions \subseteq EmClosedPositions
          /\ ~is_running /\ execPc = "none"
          /\ ~pm_is_running
          /\ ~es_is_running
          /\ ~session_is_running /\ session_pc = "none"

\* the order ids emergency_stop listed, and those it called cancel_order for
EmListedOrders ==
    UNION {{em_log[i][2][k] : k \in DOMAIN em_log[i][2]} :
              i \in {j \in DOMAIN em_log : em_log[j][1] = "pending_orders"}}
EmCancelCalls ==
    {em_log[i][2] : i \in {j \in DOMAIN em_log : em_log[j][1] = "cancel_order"}}
EmFailedSteps ==
    {i \in DOMAIN em_log :
        em_log[i][1] \in {"cancel_order", "close_position"} /\ ~em_log[i][3]}
EmStopCalled == \E i \in DOMAIN em_log : em_log[i][1] = "stop_trading_system"

\* C22: emergency_stop is best-effort: when it has returned, cancel_order was
\* called for every pending order id it listed, close_position has returned
\* for every position force_liquidate_all listed, and stop_trading_system was
\* called and left the controller stopped, whichever of the cancels and
\* closes failed; and a stop_trading_system of a running controller stops
\* the executor, the position monitor and the exit strategy
C22_BestEffort ==
    /\ [](em_pc = "returned"
            => /\ EmListedOrders \subseteq EmCancelCalls
               /\ \E i \in DOMAIN em_log : em_log[i][1] = "force_liquidate_all"
               /\ EmListedPositions \subseteq EmClosedPositions
               /\ EmStopCalled)
    /\ [](lastCall.op = "emergency_stop" => em_pc = "returned" /\ ~tc_is_running)
    /\ [][(em_pc # "returned" /\ em_pc' = "returned" /\ tc_is_running)
             => ~is_running' /\ ~pm_is_running' /\ ~es_is_running']_vars

\* emergency_stop of a running controller has returned after a cancel_order
\* was refused and a close_position failed
C22_Witness ==
    /\ em_pc = "returned"
    /\ \E i \in EmFailedSteps : em_log[i][1] = "cancel_order"
    /\ \E i \in EmFailedSteps : em_log[i][1] = "close_position"
    /\ Len(em_log) >= 6
    /\ ~is_running /\ ~pm_is_running

\* C23: in a started trading system, once the scan that completed a buy order
\* is over, the active map holds a position with the order's symbol, quantity
\* and entry price
C23_FillCreatesPosition ==
    \A r \in DOMAIN orders :
        (tc_is_running /\ orders[r].status = "COMPLETED" /\ execPc = "sleep")
           => \E p \in ActiveRefs :
                 /\ positions[p].symbol = orders[r].symbol
                 /\ positions[p].quantity = orders[r].quantity
                 /\ positions[p].entry_price = orders[r].target_price

\* C24: the recommended_threshold calculate_adjustment returns is within
\* [0.5, 5.0] for every strategy, time of day, current threshold and market
\* condition
C24_AdjustmentInRange ==
    lastCall.op = "calculate_adjustment"
       => /\ lastCall.recommended_threshold >= 50
          /\ lastCall.recommended_threshold <= 500

\* calculate_adjustment has answered with the upper end for a CONSERVATIVE
\* request with no stock at all and volatility_index 100, and a threshold
\* that the adjustment takes past 5.0
C24_Witness ==
    /\ lastCall.op = "calculate_adjustment"
    /\ lastCall.strategy = "CONSERVATIVE"
    /\ lastCall.market_condition.total_stock_count = 0
    /\ lastCall.market_condition.volatility_index = 100 * FactorScale
    /\ ApplyConservativeAdjustment(lastCall.current_threshold, lastCall.market_condition)
          > 500 * FactorScale
    /\ lastCall.recommended_threshold = 500

\* C25: when stop_executor returns, whatever await the loop was cancelled
\* at, no order of the pending collection has status EXECUTING
C25_StopLeavesNoTransition ==
    [][StopExecutor
          => \A i \in DOMAIN pending_orders' :
                orders'[pending_orders'[i][2]].status # "EXECUTING"]_vars

\* the orders the scan has not come to yet that it would attempt
WaitingInScan ==
    {execQueue[i] : i \in DOMAIN execQueue} \ {r \in DOMAIN orders : Skipped(r)}

\* C26: while the loop waits out the retry backoff of a failed order, no
\* other PENDING auto-execute order is kept waiting for its attempt by it
C26_BackoffBlocksOneOrder ==
    (execPc = "after" /\ now < execWake /\ orders[execCur].status = "PENDING")
       => WaitingInScan \ {execCur} = {}

\* C27: a pass of the session loop whose session update fails to send
\* leaves the session running, with the loop on its way to the next pass,
\* and its targets as a pass with a working sink leaves them
C27_SinkFailureHarmless ==
    [][SessionLoopTickSinkFails
          => /\ session_is_running'
             /\ session_pc' = "sleep"
             /\ monitoring_targets' = monitoring_targets]_vars

\* C28: current_daily_investment never exceeds max_daily_investment, however
\* the execute_manual_buy calls interleave, and an execute_manual_buy that
\* raises leaves current_daily_investment and the order collections as they
\* were
C28_DailyCap ==
    /\ [](current_daily_investment <= MaxDailyInvestment)
    /\ [][(lastCall'.op = "execute_manual_buy" /\ lastCall'.raised)
             => UNCHANGED <<current_daily_investment, ordVars>>]_vars

\* C29: the momentum score of a change% is no lower than the score of the
\* change% one thousandth below it, and for day_low < day_high the strength
\* score of a price is no lower than the score of the price one below it
C29_ScoresMonotone ==
    /\ lastCall.op = "calculate_momentum_score"
          => lastCall.returned >= CalculateMomentumScore(lastCall.change_percent - 1)
    /\ (lastCall.op = "calculate_strength_score" /\ lastCall.day_low < lastCall.day_high)
          => lastCall.returned >= CalculateStrengthScore(lastCall.current_price - 1,
                                                         lastCall.day_high,
                                                         lastCall.day_low)

\* the active positions of a symbol
ActiveOn(symbol) == {r \in ActiveRefs : positions[r].symbol = symbol}

\* C30: when the price update of a monitoring tick is over for a symbol,
\* every position that was active on the symbol during it and still is has
\* the fetched price as its current price: both when the update ends without
\* closing a position, and when it ends after a close_position it started
C30_TickUpdatesEveryPosition ==
    /\ [][\A symbol \in Symbols : \A price_data \in Quotations(symbol) :
            (UpdateAllPrices(symbol, price_data) /\ ~MonitorBusy')
               => \A r \in ActiveOn(symbol) :
                     positions'[r].current_price = price_data.stck_prpr]_vars
    /\ [][\A t \in BagToSet(closeTasks), outcome \in BrokerOutcomes :
            (/\ CloseFinish(t, outcome)
             /\ t.kind = "update"
             /\ Len(Live(active_positions)) = t.used
             /\ ~MonitorBusy')
               => \A r \in ActiveOn(positions[t.pos].symbol) \cap ActiveRefs' :
                     positions'[r].current_price = t.exit_price]_vars

\* C31: when the exit strategy has handled a phase transition, every position
\* in the active map carries the new phase's profit target and stop loss, and
\* no position of the closed map has been modified
C31_TransitionRetargetsActive ==
    [][(EvaluateExitConditions /\ GetCurrentPhase(SecondOfDay) # exit_current_phase)
          => /\ \A r \in ActiveRefs' :
                  /\ positions'[r].target_profit_percent
                        = ExitTargetOf(exit_current_phase').profit_target
                  /\ positions'[r].stop_loss_percent
                        = ExitTargetOf(exit_current_phase').stop_loss
             /\ \A r \in ClosedRefs : positions'[r] = positions[r]]_vars

C31_Witness ==
    /\ lastCall.op = "evaluate_exit_conditions"
    /\ lastCall.transition
    /\ exit_current_phase = "AFTERNOON"
    /\ ClosedRefs # {}
    /\ \E r \in ActiveRefs :
          positions[r].target_profit_percent = ExitTargetOf("AFTERNOON").profit_target

\* C32: in every exit phase the time-adjusted profit target does not rise as
\* the phase progresses, and by the end of the phase it lies below the
\* phase's hard profit target
C32_AdjustedTargetBelowHard ==
    lastCall.op = "_calculate_time_adjusted_target"
       => LET target == ExitTargetOf(lastCall.phase) IN
          /\ lastCall.current_time > target.start_time
                => lastCall.returned
                      <= CalculateTimeAdjustedTarget(target, lastCall.current_time - 1)
          /\ lastCall.current_time + 1 >= target.end_time
                => lastCall.returned < target.profit_target * TargetScale

\* the fields of a BuySignal object
SignalFields ==
    {"signal_id", "symbol", "current_price", "created_at", "investment_amount",
     "auto_confirm", "confirmation_timeout", "is_confirmed", "is_processed",
     "order_id", "trigger_reason"}

\* the signal was created more than its confirmation timeout ago
OlderThanTimeout(sig) == now - sig.created_at > sig.confirmation_timeout

\* C33: cleanup_expired moves every active signal older than its
\* confirmation timeout into the processed set and records the expiry on the
\* signal, leaves every younger signal active and unchanged, and so frees the
\* moved signals' slots in the budget of pending signals
C33_CleanupSweepsOld ==
    [][CleanupExpiredSignals
          => /\ \A r \in Refs(active_signals) :
                  IF OlderThanTimeout(signals[r])
                  THEN /\ r \notin Refs(active_signals')
                       /\ r \in Refs(processed_signals')
                       /\ \E f \in SignalFields : signals'[r][f] # signals[r][f]
                  ELSE /\ r \in Refs(active_signals')
                       /\ signals'[r] = signals[r]
             /\ Len(active_signals')
                   = Len(active_signals)
                        - Cardinality({r \in Refs(active_signals) :
                                          OlderThanTimeout(signals[r])})]_vars

\* C34: an order is created with an update carrying PENDING, and whenever the
\* status of an order changes, an update carrying the status it had before
\* has been sent: no status is replaced before it was notified
C34_EveryStatusNotified ==
    [][/\ Len(orders') > Len(orders) => orders'[Len(orders')].notified = "PENDING"
       /\ \A r \in DOMAIN orders :
             orders'[r].status # orders[r].status
                => orders[r].notified = orders[r].status]_vars

\* the close_position coroutines a loop is waiting for
LoopTasks(owner) == {t \in BagToSet(closeTasks) : t.owner = owner}

UntriggeredAfter(k) ==
    {i \in DOMAIN monitoring_targets : i > k /\ ~monitoring_targets[i].is_triggered}

C37_PnlFollowsPrice ==
    \A r \in DOMAIN positions :
       LET p == positions[r]
       IN  /\ p.current_pnl = (p.current_price - p.entry_price) * p.quantity
           /\ p.current_pnl_percent
                 = ((p.current_price - p.entry_price) * 100 * 100) \div p.entry_price

\* a position closed at a price away from its entry price
C37_Witness ==
    \E r \in DOMAIN positions :
       /\ positions[r].status = "CLOSED"
       /\ positions[r].exit_price = positions[r].current_price
       /\ positions[r].current_price # positions[r].entry_price
       /\ positions[r].current_pnl # 0

\* the phases in which the session loop monitors its targets
ActivePhases == {"PHASE_1", "PHASE_2", "PHASE_3", "PHASE_4"}

\* C38: within a session a target's is_triggered only goes from false to
\* true, and only when the target is polled in a tick whose derived phase is
\* PHASE_1..PHASE_4; no target is polled in WAITING or COMPLETED, and a
\* triggered target is neither polled nor handed to the signal processor again
C38_TriggeredOnceInActivePhase ==
    /\ [][session_started' = session_started
             => \A i \in DOMAIN monitoring_targets :
                   /\ monitoring_targets[i].is_triggered
                         => monitoring_targets'[i].is_triggered
                   /\ monitoring_targets'[i].is_triggered # monitoring_targets[i].is_triggered
                         => /\ current_phase \in ActivePhases
                            /\ session_pc = "poll"
                            /\ session_cur = i]_vars
    /\ [](session_pc = "poll"
             => /\ current_phase \in ActivePhases
                /\ ~monitoring_targets[session_cur].is_triggered)
    /\ [][Len(signals') > Len(signals)
             => /\ session_pc = "poll"
                /\ ~monitoring_targets[session_cur].is_triggered
                /\ monitoring_targets'[session_cur].is_triggered
                /\ signals'[Len(signals')].symbol
                      = monitoring_targets[session_cur].symbol]_vars

\* a later tick polls the second target and has skipped the first, which was
\* triggered before the last phase change
C38_Witness ==
    /\ Len(monitoring_targets) >= 2
    /\ monitoring_targets[1].is_triggered
    /\ monitoring_targets[1].changes_at_trigger < Len(phase_changes)
    /\ session_pc = "poll"
    /\ session_cur = 2
    /\ current_phase \in ActivePhases

\* C39: once a position is in the closed map, no step changes its exit
\* price, exit time, exit reason or status
C39_ClosedIsFinal ==
    [][\A r \in ClosedRefs :
          /\ positions'[r].exit_price = positions[r].exit_price
          /\ positions'[r].exit_time = positions[r].exit_time
          /\ positions'[r].exit_reason = positions[r].exit_reason
          /\ positions'[r].status = positions[r].status]_vars

\* C40: while the execution loop keeps running and every broker call returns,
\* every auto-execute order added to pending eventually has a terminal status
\* (COMPLETED, FAILED or CANCELLED) and is in the completed collection
TerminalStatuses == {"COMPLETED", "FAILED", "CANCELLED"}

Terminated(r) ==
    /\ r \in DOMAIN orders
    /\ orders[r].status \in TerminalStatuses
    /\ r \in Refs(completed_orders)

C40_AutoOrdersTerminate ==
    \A r \in 1 .. MaxOrders :
       (r \in DOMAIN orders /\ orders[r].auto_execute)
          ~> Terminated(r)

\* the same for the orders whose identifier no other order was given
SharesId(r) ==
    /\ r \in DOMAIN orders
    /\ \E q \in DOMAIN orders : q # r /\ orders[q].order_id = orders[r].order_id

UniqueIdOrdersTerminate ==
    \A r \in 1 .. MaxOrders :
       (r \in DOMAIN orders /\ orders[r].auto_execute)
          ~> (Terminated(r) \/ SharesId(r))

\* the phase the specification gives the session at a time of day
SessionPhaseAt(t) ==
    {p \in {"WAITING", "PHASE_1", "PHASE_2", "PHASE_3", "PHASE_4", "COMPLETED"} :
        \/ p = "WAITING" /\ t < TimeOfDay(16, 0)
        \/ p = "PHASE_1" /\ TimeOfDay(16, 0) <= t /\ t < TimeOfDay(16, 30)
        \/ p = "PHASE_2" /\ TimeOfDay(16, 30) <= t /\ t < TimeOfDay(17, 0)
        \/ p = "PHASE_3" /\ TimeOfDay(17, 0) <= t /\ t < TimeOfDay(17, 30)
        \/ p = "PHASE_4" /\ TimeOfDay(17, 30) <= t /\ t < TimeOfDay(17, 40)
        \/ p = "COMPLETED" /\ TimeOfDay(17, 40) <= t}

\* the exit phase the specification gives a time of the trading day
ExitPhaseAt(t) ==
    {p \in {"EARLY_MORNING", "MID_MORNING", "AFTERNOON", "FORCE_EXIT"} :
        \/ p = "EARLY_MORNING" /\ TimeOfDay(9, 0) <= t /\ t < TimeOfDay(11, 0)
        \/ p = "MID_MORNING" /\ TimeOfDay(11, 0) <= t /\ t < TimeOfDay(13, 0)
        \/ p = "AFTERNOON" /\ TimeOfDay(13, 0) <= t /\ t < TimeOfDay(15, 0)
        \/ p = "FORCE_EXIT" /\ TimeOfDay(15, 0) <= t /\ t < TimeOfDay(15, 30)}

\* C16: at every time of the day _determine_current_phase returns the one
\* session phase whose interval holds the time (WAITING before 16:00, PHASE_1
\* to PHASE_4 from 16:00, 16:30, 17:00 and 17:30, COMPLETED from 17:40), and
\* _get_current_phase returns one of the four exit phases, the one whose
\* interval holds the time for the times from 09:00 to 15:30
C16_OnePhasePerTime ==
    /\ lastCall.op = "_determine_current_phase"
          => SessionPhaseAt(SecondOfDay) = {lastCall.returned}
    /\ lastCall.op = "_get_current_phase"
          => /\ lastCall.returned \in {"EARLY_MORNING", "MID_MORNING", "AFTERNOON",
                                       "FORCE_EXIT"}
             /\ Len(MatchingTargets(SecondOfDay)) <= 1
             /\ ExitPhaseAt(SecondOfDay) \subseteq {lastCall.returned}

\* the session phase was asked at 16:00:00, the first second of PHASE_1
C16_Witness ==
    /\ lastCall.op = "_determine_current_phase"
    /\ SecondOfDay = TimeOfDay(16, 0)
    /\ lastCall.returned = "PHASE_1"

\* the step marked target k triggered
MarkedTriggered(k) ==
    /\ k \in DOMAIN monitoring_targets'
    /\ ~monitoring_targets[k].is_triggered
    /\ monitoring_targets'[k].is_triggered

\* C13: a session tick that marks a target triggered creates exactly one
\* BuySignal, for the target's symbol, whose trigger_reason carries the
\* polled change percent
C13_TriggerCreatesSignal ==
    [][\A k \in DOMAIN monitoring_targets :
          MarkedTriggered(k)
             => /\ Len(signals') = Len(signals) + 1
                /\ signals'[Len(signals')].symbol = monitoring_targets[k].symbol
                /\ Len(signals') \in Refs(active_signals')
                /\ signals'[Len(signals')].trigger_reason[1] = "MOMENTUM"
                /\ signals'[Len(signals')].trigger_reason[2] * PercentScale
                      = monitoring_targets'[k].change_percent * 100]_vars

(***************************************************************************)
(* Properties of the Order Executor (checked under SpecOrd).               *)
(***************************************************************************)
AllAttemptsFailed(o) == o.auto_execute /\ o.failures = o.attempts

\* C2: an auto-execute order whose broker calls all fail is called at most
\* max_retries times; while it waits for its next attempt it is still in
\* pending, so that the loop retries it; after the max_retries-th failure it
\* is FAILED, and a FAILED order has had exactly max_retries calls and sits
\* in completed, not in pending.
C2_RetryBound ==
    \A r \in DOMAIN orders :
        AllAttemptsFailed(orders[r]) =>
            /\ orders[r].attempts <= MaxRetries
            /\ orders[r].attempts = MaxRetries => orders[r].status = "FAILED"
            /\ orders[r].status = "FAILED" =>
                  /\ orders[r].attempts = MaxRetries
                  /\ r \in Refs(completed_orders)
                  /\ r \notin Refs(pending_orders)
            /\ orders[r].attempts >= 1 /\ orders[r].status = "PENDING" /\ execCur # r
                  => r \in Refs(pending_orders)

\* C5: every accepted order is in exactly one of pending and completed, in
\* pending while PENDING or EXECUTING and in completed once COMPLETED, FAILED
\* or CANCELLED; an order in completed stays there with its status.
C5_OrderPartition ==
    /\ [](\A r \in DOMAIN orders :
            /\ (r \in Refs(pending_orders)) # (r \in Refs(completed_orders))
            /\ orders[r].status \in {"PENDING", "EXECUTING"}
                  => r \in Refs(pending_orders)
            /\ orders[r].status \in {"COMPLETED", "FAILED", "CANCELLED"}
                  => r \in Refs(completed_orders))
    /\ [][\A r \in Refs(completed_orders) :
            /\ r \in Refs(completed_orders')
            /\ r \notin Refs(pending_orders')
            /\ orders'[r].status = orders[r].status]_vars

(***************************************************************************)
(* Properties of the Position Manager (checked under SpecPos, and C7 under *)
(* SpecMon).                                                               *)
(***************************************************************************)

\* C3: no two close_position calls are suspended at their broker call for
\* the same position at once (each of them has sent a sell order for it), and
\* the broker never accepts more than one sell order for a position.
C3_OneSellPerPosition ==
    /\ \A t \in BagToSet(closeTasks) : CopiesIn(t, closeTasks) = 1
    /\ \A t, u \in BagToSet(closeTasks) : t.pos = u.pos => t = u
    /\ \A r \in DOMAIN positions : positions[r].sold <= 1

\* C4: a close_position call for an id that is not in the active map returns
\* false, raises nothing, sends no sell order and leaves the active and the
\* closed map as they were.
C4_CloseInactiveIsNoOp ==
    lastCall.op = "close_position" /\ ~lastCall.in_active
       => /\ lastCall.returned = "false"
          /\ ~lastCall.raised
          /\ ~lastCall.sell_sent
          /\ lastCall.maps_unchanged

\* close_position was called for the id of a position that is already closed
C4_Witness ==
    /\ lastCall.op = "close_position"
    /\ ~lastCall.in_active
    /\ lastCall.was_closed

\* C6: the active and the closed map never share a position id or a position,
\* and a position in closed stays in closed and does not come back to active.
C6_ActiveClosedDisjoint ==
    /\ [](/\ Keys(Live(active_positions)) \cap Keys(closed_positions) = {}
          /\ Refs(Live(active_positions)) \cap Refs(closed_positions) = {})
    /\ [][\A r \in Refs(closed_positions) :
            /\ r \in Refs(closed_positions')
            /\ r \notin Refs(Live(active_positions'))]_vars

ProfitHolds(p) == p.current_pnl_percent >= p.target_profit_percent
StopHolds(p) == p.current_pnl_percent <= p.stop_loss_percent
TimeHolds(p) == HoursHeldAtLeast(p, p.max_hold_hours)

\* C7: should_exit reports PROFIT_TARGET whenever the profit target is met,
\* STOP_LOSS when it is not met and the stop loss is, TIME_BASED when neither
\* is and the maximum hold time has passed, and no exit when none holds.
C7_ExitPriority ==
    \A r \in DOMAIN positions :
        LET p == positions[r]
            res == ShouldExit(p)
        IN  /\ ProfitHolds(p) => res = <<TRUE, "PROFIT_TARGET">>
            /\ ~ProfitHolds(p) /\ StopHolds(p) => res = <<TRUE, "STOP_LOSS">>
            /\ ~ProfitHolds(p) /\ ~StopHolds(p) /\ TimeHolds(p)
                  => res = <<TRUE, "TIME_BASED">>
            /\ ~ProfitHolds(p) /\ ~StopHolds(p) /\ ~TimeHolds(p)
                  => res = <<FALSE, "NONE">>

\* update_position_price found the profit target met on an active position
\* held past its maximum hold time and is closing it, while another active
\* position held that long is at its stop loss
C7_Witness ==
    /\ \E t \in BagToSet(closeTasks) :
          /\ t.kind = "update"
          /\ t.exit_reason = "PROFIT_TARGET"
          /\ TimeHolds(positions[t.pos])
          /\ positions[t.pos].entry_time = 0
          /\ ticks = 1
    /\ \E r \in Refs(Live(active_positions)) :
          StopHolds(positions[r]) /\ TimeHolds(positions[r])

\* C8: a close_position whose broker call failed returns false and leaves
\* the position and both maps as they were; a position is moved to closed
\* only by a close_position whose broker call succeeded, and every position
\* in closed has its status, exit_price, exit_time and exit_reason recorded.
C8_FailedSellLeavesActive ==
    /\ lastCall.op = "close_finish" /\ lastCall.failed
          => ~lastCall.returned /\ ~lastCall.moved /\ lastCall.unchanged
    /\ lastCall.op = "close_finish" /\ lastCall.moved
          => ~lastCall.failed /\ lastCall.returned /\ lastCall.recorded
    /\ \A r \in Refs(closed_positions) :
          /\ positions[r].status = "CLOSED"
          /\ positions[r].exit_price # 0
          /\ positions[r].exit_time # -1
          /\ positions[r].exit_reason # "NONE"

====
